---- MODULE Spec2Model ----
(***************************************************************************)
(* catmd: terminal Markdown pager with a watch + timeline core.            *)
(* State machine of App (snapshot store, navigation state, event loop)     *)
(* and the pure diff engine, translated from src/src/main.rs.              *)
(* Line numbers, scroll offsets and indices are 0-based as in the source;  *)
(* TLA+ sequences are 1-based, so v[i] of the source is v[i + 1] here.     *)
(***************************************************************************)
EXTENDS Integers, Sequences, FiniteSets, TLC

(***************************************************************************)
(* Bounds of the model                                                     *)
(***************************************************************************)
\* largest --history value explored
MaxCapacity == 3
\* next_revision stops growing here (u64 in the source)
MaxRevision == 5
\* longest search query typed
MaxQuery == 1
\* events the watcher channel holds before the environment stops posting
MaxInbox == 1
\* deepest backstack explored
MaxBackstack == 1
\* --history value and next_revision limit when every key is explored
NavCapacity == 2
MaxNavRevision == 3
\* next_revision limit when revision changes are explored with a search query
MaxSyncRevision == 4
\* events the watcher channel holds, and next_revision limit, when the reload
\* latch is explored
MaxWatchInbox == 3
MaxWatchRevision == 4
\* the monotonic clock, in milliseconds: how far it runs after Instant::now()
\* of the first snapshot, and the time between two looks at it
MaxClock == 16000
ClockStep == 500
\* most lines of the document drawn when the freshness of a snapshot is explored
MaxDrawnLines == 2
\* next_revision limit when the search is explored across link opens, back-pops,
\* reloads and revision changes
MaxSearchRevision == 4
\* terminal heights given to draw on its own: from no row at all up to
\* MaxFrameHeight
MinFrameHeight == 0
MaxFrameHeight == 12
\* longest line sequence given to compute_line_diff on its own
MaxDiffLen == 4
\* most lines of a document given to build_snapshot_diff on its own
MaxDocLen == 3
\* most events the parser hands to the renderer, and most tags open at once
MaxEvents == 8
MaxOpen == 3

\* modifications of the watched file while the loop runs
MaxModifications == 3

(***************************************************************************)
(* Program constants                                                       *)
(***************************************************************************)
U16_MAX == 65535
\* Duration::from_secs(2) and Duration::from_secs(15), in milliseconds
BRIGHT_CHANGE_WINDOW == 2000
DIM_CHANGE_WINDOW == 15000
TIMELINE_DEFAULT_HEIGHT == 6
TIMELINE_MIN_HEIGHT == 3
DIFF_MAX_CELLS == 2000000

(***************************************************************************)
(* Integer helpers (saturating arithmetic of usize / u16)                  *)
(***************************************************************************)
Min(a, b) == IF a <= b THEN a ELSE b
Max(a, b) == IF a >= b THEN a ELSE b
saturating_sub(a, b) == IF a >= b THEN a - b ELSE 0
u16_saturating_add(a, b) == Min(a + b, U16_MAX)

usize_to_u16_saturating(value) == IF value <= U16_MAX THEN value ELSE U16_MAX

Reverse(s) == [i \in 1..Len(s) |-> s[Len(s) + 1 - i]]

\* Option<T>: None is <<>>, Some(x) is <<x>>
None == <<>>
Some(x) == <<x>>

(***************************************************************************)
(* Diff engine                                                             *)
(***************************************************************************)
\* #[derive(Default)] LineDiffResult
LineDiffDefault == [added |-> 0, removed |-> 0, hunks |-> <<>>, overflow |-> FALSE]

DiffHunk(s, e, a, r) == [start_line |-> s, end_line |-> e, added |-> a, removed |-> r]

\* first loop of compute_line_diff
RECURSIVE CommonPrefix(_, _, _)
CommonPrefix(old_lines, new_lines, prefix) ==
    IF /\ prefix < Len(old_lines)
       /\ prefix < Len(new_lines)
       /\ old_lines[prefix + 1] = new_lines[prefix + 1]
    THEN CommonPrefix(old_lines, new_lines, prefix + 1)
    ELSE prefix

\* a suffix loop that stops at the start of the sequences, not at the prefix
RECURSIVE TrimSuffixIntoPrefix(_, _, _, _, _)
TrimSuffixIntoPrefix(old_lines, new_lines, prefix, old_end, new_end) ==
    IF /\ old_end > 0
       /\ new_end > 0
       /\ old_lines[old_end] = new_lines[new_end]
    THEN TrimSuffixIntoPrefix(old_lines, new_lines, prefix, old_end - 1, new_end - 1)
    ELSE <<old_end, new_end>>

\* second loop of compute_line_diff: returns <<old_end, new_end>>
RECURSIVE TrimSuffix(_, _, _, _, _)
TrimSuffix(old_lines, new_lines, prefix, old_end, new_end) ==
    IF /\ old_end > prefix
       /\ new_end > prefix
       /\ old_lines[old_end] = new_lines[new_end]
    THEN TrimSuffix(old_lines, new_lines, prefix, old_end - 1, new_end - 1)
    ELSE <<old_end, new_end>>

\* one row of the LCS table; row[j + 1] is table[i * cols + j]
RECURSIVE LcsRow(_, _, _, _, _)
LcsRow(prev, old_item, new_mid, j, acc) ==
    IF j > Len(new_mid) THEN acc
    ELSE LET v == IF old_item = new_mid[j]
                  THEN prev[j] + 1
                  ELSE Max(prev[j + 1], acc[j])
         IN LcsRow(prev, old_item, new_mid, j + 1, Append(acc, v))

\* the whole table as a sequence of rows; rows[i + 1] is row i
RECURSIVE LcsRows(_, _, _, _)
LcsRows(old_mid, new_mid, i, rows) ==
    IF i > Len(old_mid) THEN rows
    ELSE LcsRows(old_mid, new_mid, i + 1,
                 Append(rows, LcsRow(rows[i], old_mid[i], new_mid, 1, <<0>>)))

LcsTable(old_mid, new_mid) ==
    LcsRows(old_mid, new_mid, 1, << [j \in 1..(Len(new_mid) + 1) |-> 0] >>)

\* the backtracking loops; returns ops_reversed
RECURSIVE Backtrack(_, _, _, _, _, _)
Backtrack(table, old_mid, new_mid, i, j, ops_reversed) ==
    IF i > 0 /\ j > 0 THEN
        IF old_mid[i] = new_mid[j]
        THEN Backtrack(table, old_mid, new_mid, i - 1, j - 1, Append(ops_reversed, "Equal"))
        ELSE LET up == table[i][j + 1]
                 left == table[i + 1][j]
             IN IF up >= left
                THEN Backtrack(table, old_mid, new_mid, i - 1, j, Append(ops_reversed, "Remove"))
                ELSE Backtrack(table, old_mid, new_mid, i, j - 1, Append(ops_reversed, "Add"))
    ELSE IF i > 0
    THEN Backtrack(table, old_mid, new_mid, i - 1, j, Append(ops_reversed, "Remove"))
    ELSE IF j > 0
    THEN Backtrack(table, old_mid, new_mid, i, j - 1, Append(ops_reversed, "Add"))
    ELSE ops_reversed

\* the hunk-building loop with an Add that leaves end_line where it was
RECURSIVE BuildHunksKeepingEnd(_, _, _)
BuildHunksKeepingEnd(ops, k, st) ==
    IF k > Len(ops) THEN st
    ELSE LET op == ops[k]
             fresh == DiffHunk(st.new_index, st.new_index, 0, 0)
             hunk == IF st.current = None THEN fresh ELSE st.current[1]
         IN IF op = "Equal" THEN
                BuildHunksKeepingEnd(ops, k + 1,
                    [st EXCEPT !.new_index = @ + 1,
                               !.hunks = IF st.current = None THEN @ ELSE Append(@, st.current[1]),
                               !.current = None])
            ELSE IF op = "Add" THEN
                BuildHunksKeepingEnd(ops, k + 1,
                    [st EXCEPT !.added = @ + 1,
                               !.new_index = @ + 1,
                               !.current = Some([hunk EXCEPT !.added = @ + 1])])
            ELSE
                BuildHunksKeepingEnd(ops, k + 1,
                    [st EXCEPT !.removed = @ + 1,
                               !.current = Some([hunk EXCEPT !.removed = @ + 1])])

\* the hunk-building loop over the operations in source order
RECURSIVE BuildHunks(_, _, _)
BuildHunks(ops, k, st) ==
    IF k > Len(ops) THEN st
    ELSE LET op == ops[k]
             fresh == DiffHunk(st.new_index, st.new_index, 0, 0)
             hunk == IF st.current = None THEN fresh ELSE st.current[1]
         IN IF op = "Equal" THEN
                BuildHunks(ops, k + 1,
                    [st EXCEPT !.new_index = @ + 1,
                               !.hunks = IF st.current = None THEN @ ELSE Append(@, st.current[1]),
                               !.current = None])
            ELSE IF op = "Add" THEN
                BuildHunks(ops, k + 1,
                    [st EXCEPT !.added = @ + 1,
                               !.new_index = @ + 1,
                               !.current = Some([hunk EXCEPT !.added = @ + 1,
                                                             !.end_line = st.new_index + 1])])
            ELSE
                BuildHunks(ops, k + 1,
                    [st EXCEPT !.removed = @ + 1,
                               !.current = Some([hunk EXCEPT !.removed = @ + 1])])

\* the hunk-building loop numbering the new lines from 0 instead of the prefix
HunksOfOpsFromZero(ops, prefix) ==
    BuildHunks(ops, 1, [hunks |-> <<>>, current |-> None, new_index |-> 0,
                        added |-> 0, removed |-> 0])

\* the LCS path of compute_line_diff: table, backtracking, hunks
HunksOfOps(ops, prefix) ==
    BuildHunks(ops, 1, [hunks |-> <<>>, current |-> None, new_index |-> prefix,
                        added |-> 0, removed |-> 0])

\* the result without the hunk still open when the operations end
LineDiffOfStateDroppingOpen(st) ==
    [added |-> st.added, removed |-> st.removed, hunks |-> st.hunks, overflow |-> FALSE]

LineDiffOfState(st) ==
    [added |-> st.added, removed |-> st.removed,
     hunks |-> IF st.current = None THEN st.hunks ELSE Append(st.hunks, st.current[1]),
     overflow |-> FALSE]

LcsDiff(prefix, old_mid, new_mid) ==
    LineDiffOfState(
        HunksOfOps(Reverse(Backtrack(LcsTable(old_mid, new_mid), old_mid, new_mid,
                                     Len(old_mid), Len(new_mid), <<>>)),
                   prefix))

\* compute_line_diff without the early return for two empty changed regions
DiffOfMidWithoutEqualCase(prefix, old_mid, new_mid, max_cells) ==
    IF old_mid = <<>> THEN
         [added |-> Len(new_mid), removed |-> 0,
          hunks |-> << DiffHunk(prefix, prefix + Len(new_mid), Len(new_mid), 0) >>,
          overflow |-> FALSE]
    ELSE IF new_mid = <<>> THEN
         [added |-> 0, removed |-> Len(old_mid),
          hunks |-> << DiffHunk(prefix, prefix, 0, Len(old_mid)) >>,
          overflow |-> FALSE]
    ELSE IF (Len(old_mid) + 1) * (Len(new_mid) + 1) > max_cells THEN
         [added |-> Len(new_mid), removed |-> Len(old_mid),
          hunks |-> << DiffHunk(prefix, prefix + Len(new_mid), Len(new_mid), Len(old_mid)) >>,
          overflow |-> TRUE]
    ELSE LcsDiff(prefix, old_mid, new_mid)

\* compute_line_diff overflowing already when the table has max_cells cells
DiffOfMidOverflowAtLimit(prefix, old_mid, new_mid, max_cells) ==
    IF old_mid = <<>> /\ new_mid = <<>> THEN LineDiffDefault
    ELSE IF old_mid = <<>> THEN
         [added |-> Len(new_mid), removed |-> 0,
          hunks |-> << DiffHunk(prefix, prefix + Len(new_mid), Len(new_mid), 0) >>,
          overflow |-> FALSE]
    ELSE IF new_mid = <<>> THEN
         [added |-> 0, removed |-> Len(old_mid),
          hunks |-> << DiffHunk(prefix, prefix, 0, Len(old_mid)) >>,
          overflow |-> FALSE]
    ELSE IF (Len(old_mid) + 1) * (Len(new_mid) + 1) >= max_cells THEN
         [added |-> Len(new_mid), removed |-> Len(old_mid),
          hunks |-> << DiffHunk(prefix, prefix + Len(new_mid), Len(new_mid), Len(old_mid)) >>,
          overflow |-> TRUE]
    ELSE LcsDiff(prefix, old_mid, new_mid)

\* compute_line_diff once the common prefix and suffix are stripped
DiffOfMid(prefix, old_mid, new_mid, max_cells) ==
    IF old_mid = <<>> /\ new_mid = <<>> THEN LineDiffDefault
    ELSE IF old_mid = <<>> THEN
         [added |-> Len(new_mid), removed |-> 0,
          hunks |-> << DiffHunk(prefix, prefix + Len(new_mid), Len(new_mid), 0) >>,
          overflow |-> FALSE]
    ELSE IF new_mid = <<>> THEN
         [added |-> 0, removed |-> Len(old_mid),
          hunks |-> << DiffHunk(prefix, prefix, 0, Len(old_mid)) >>,
          overflow |-> FALSE]
    ELSE IF (Len(old_mid) + 1) * (Len(new_mid) + 1) > max_cells THEN
         [added |-> Len(new_mid), removed |-> Len(old_mid),
          hunks |-> << DiffHunk(prefix, prefix + Len(new_mid), Len(new_mid), Len(old_mid)) >>,
          overflow |-> TRUE]
    ELSE LcsDiff(prefix, old_mid, new_mid)

DiffOfEnds(old_lines, new_lines, max_cells, prefix, ends) ==
    DiffOfMid(prefix, SubSeq(old_lines, prefix + 1, ends[1]),
              SubSeq(new_lines, prefix + 1, ends[2]), max_cells)

DiffOfPrefix(old_lines, new_lines, max_cells, prefix) ==
    DiffOfEnds(old_lines, new_lines, max_cells, prefix,
               TrimSuffix(old_lines, new_lines, prefix, Len(old_lines), Len(new_lines)))

compute_line_diff(old_lines, new_lines, max_cells) ==
    DiffOfPrefix(old_lines, new_lines, max_cells, CommonPrefix(old_lines, new_lines, 0))

\* toc.iter().enumerate().rfind(|e| e.line <= line): largest 0-based index, or -1
TocRfind(toc, line) ==
    LET hits == {i \in 1..Len(toc) : toc[i].line <= line}
    IN IF hits = {} THEN -1 ELSE (CHOOSE i \in hits : \A k \in hits : k <= i) - 1

\* Option<usize> as None / Some(idx)
heading_index_for_line(toc, line) ==
    IF toc = <<>> THEN None
    ELSE IF TocRfind(toc, line) >= 0 THEN Some(TocRfind(toc, line)) ELSE Some(0)

hunk_anchor_line(hunk, total_lines) ==
    IF total_lines = 0 THEN 0
    ELSE IF hunk.end_line > hunk.start_line
    THEN Min(hunk.start_line, saturating_sub(total_lines, 1))
    ELSE Min(saturating_sub(hunk.start_line, 1), saturating_sub(total_lines, 1))

\* the touched TOC indices, ascending, as a sequence
touched_toc_indices_for_hunk(hunk, toc, total_lines) ==
    IF toc = <<>> THEN <<>>
    ELSE LET start_line == IF total_lines = 0 THEN 0
                           ELSE Min(hunk.start_line, saturating_sub(total_lines, 1))
             end_line == IF total_lines = 0 THEN 0
                         ELSE IF hunk.end_line > hunk.start_line
                         THEN Min(saturating_sub(hunk.end_line, 1), saturating_sub(total_lines, 1))
                         ELSE Min(saturating_sub(hunk.start_line, 1), saturating_sub(total_lines, 1))
             from == Min(start_line, end_line)
             to == Max(start_line, end_line)
             start_idx == heading_index_for_line(toc, from)[1]
             end_idx == heading_index_for_line(toc, to)[1]
         IN [k \in 1..(IF end_idx >= start_idx THEN end_idx - start_idx + 1 ELSE 0)
                |-> start_idx + k - 1]

\* #[derive(Default)] SnapshotDiff
SnapshotDiffDefault ==
    [added |-> 0, removed |-> 0, hunks |-> <<>>, section_deltas |-> <<>>,
     top_section |-> None, overflow |-> FALSE]

PlainLines(rendered) == [i \in 1..Len(rendered.lines) |-> rendered.lines[i].plain]

\* the loop over hunks filling the BTreeMap; the map is a function from the
\* touched TOC indices to [added, removed]
RECURSIVE SectionDeltas(_, _, _, _, _)
SectionDeltas(hunks, toc, total_lines, k, deltas) ==
    IF k > Len(hunks) THEN deltas
    ELSE LET hunk == hunks[k]
             touched == touched_toc_indices_for_hunk(hunk, toc, total_lines)
             keys == (DOMAIN deltas) \cup {touched[i] : i \in 1..Len(touched)}
             withKeys == [idx \in keys |->
                            IF idx \in DOMAIN deltas THEN deltas[idx]
                            ELSE [added |-> 0, removed |-> 0]]
             next == IF touched = <<>> THEN withKeys
                     ELSE [withKeys EXCEPT ![touched[1]] =
                               [added |-> @.added + hunk.added,
                                removed |-> @.removed + hunk.removed]]
         IN SectionDeltas(hunks, toc, total_lines, k + 1, next)

\* title of the first key of section_deltas
TopSection(keys, toc) ==
    IF keys = {} THEN None
    ELSE IF (CHOOSE idx \in keys : \A other \in keys : idx <= other) + 1 \in DOMAIN toc
    THEN Some(toc[(CHOOSE idx \in keys : \A other \in keys : idx <= other) + 1].title)
    ELSE None

SnapshotDiffOf(line_diff, section_deltas, toc) ==
    [added |-> line_diff.added, removed |-> line_diff.removed,
     hunks |-> line_diff.hunks, section_deltas |-> section_deltas,
     top_section |-> TopSection(DOMAIN section_deltas, toc), overflow |-> line_diff.overflow]

SnapshotDiffOfLines(line_diff, next) ==
    SnapshotDiffOf(line_diff,
                   SectionDeltas(line_diff.hunks, next.toc, Len(next.lines), 1, <<>>),
                   next.toc)

build_snapshot_diff(previous, next) ==
    SnapshotDiffOfLines(
        compute_line_diff(PlainLines(previous), PlainLines(next), DIFF_MAX_CELLS), next)

(***************************************************************************)
(* Text: a string is a sequence of one-character strings                   *)
(***************************************************************************)
UpperCase == <<"A", "B", "C", "D", "E", "F", "G", "H", "I", "J", "K", "L", "M",
               "N", "O", "P", "Q", "R", "S", "T", "U", "V", "W", "X", "Y", "Z">>
LowerCase == <<"a", "b", "c", "d", "e", "f", "g", "h", "i", "j", "k", "l", "m",
               "n", "o", "p", "q", "r", "s", "t", "u", "v", "w", "x", "y", "z">>

\* u8::to_ascii_lowercase: 'A'..'Z' become 'a'..'z', any other character is kept
AsciiLower(c) ==
    IF \E i \in 1..Len(UpperCase) : UpperCase[i] = c
    THEN LowerCase[CHOOSE i \in 1..Len(UpperCase) : UpperCase[i] = c]
    ELSE c

to_ascii_lowercase(text) == [i \in 1..Len(text) |-> AsciiLower(text[i])]

\* str::contains
contains(haystack, needle) ==
    \E start \in 0..Len(haystack) :
        /\ start + Len(needle) <= Len(haystack)
        /\ \A k \in 1..Len(needle) : haystack[start + k] = needle[k]

(***************************************************************************)
(* App: accessors and scroll                                               *)
(***************************************************************************)
latest_snapshot_index(a) == saturating_sub(Len(a.snapshots), 1)

current_snapshot(a) ==
    IF a.active_snapshot < Len(a.snapshots)
    THEN Some(a.snapshots[a.active_snapshot + 1])
    ELSE None

is_live_mode(a) == a.active_snapshot = latest_snapshot_index(a)

max_scroll(a) ==
    LET total == Len(a.doc.rendered.lines)
        visible == Max(a.viewport_height, 1)
    IN usize_to_u16_saturating(saturating_sub(total, visible))

\* toc.iter().rposition(|entry| entry.line <= scroll).unwrap_or(0)
sync_toc_selected_with_scroll(a) ==
    [a EXCEPT !.toc_selected = Max(TocRfind(a.doc.rendered.toc, a.scroll), 0)]

set_scroll_and_sync(a, scroll) ==
    sync_toc_selected_with_scroll([a EXCEPT !.scroll = Min(scroll, max_scroll(a))])

set_scroll_to_line(a, line) == set_scroll_and_sync(a, usize_to_u16_saturating(line))

\* variant: no clamp
clamp_scroll_skipped(a) == a

clamp_scroll(a) == [a EXCEPT !.scroll = Min(a.scroll, max_scroll(a))]

selected_link_line(a) ==
    IF a.selected_link # None /\ a.selected_link[1] < Len(a.doc.rendered.links)
    THEN Some(a.doc.rendered.links[a.selected_link[1] + 1].line)
    ELSE None

FirstLink(rendered) == IF rendered.links = <<>> THEN None ELSE Some(0)

(***************************************************************************)
(* App: TOC                                                                *)
(***************************************************************************)
move_toc_selection(a, reverse) ==
    LET len == Len(a.doc.rendered.toc)
    IN IF len = 0
       THEN [a EXCEPT !.toc_selected = 0, !.status = <<"No headings in TOC">>]
       ELSE IF reverse
       THEN [a EXCEPT !.toc_selected = saturating_sub(a.toc_selected, 1)]
       ELSE [a EXCEPT !.toc_selected = Min(a.toc_selected + 1, saturating_sub(len, 1))]

jump_to_toc_index(a, index) ==
    IF index < Len(a.doc.rendered.toc)
    THEN LET entry == a.doc.rendered.toc[index + 1]
             moved == set_scroll_to_line([a EXCEPT !.toc_selected = index], entry.line)
         IN [moved EXCEPT !.status = <<"Jumped to", entry.title>>]
    ELSE [a EXCEPT !.status = <<"No headings in TOC">>]

jump_to_toc_selected(a) == jump_to_toc_index(a, a.toc_selected)

\* a jump that also stops on a heading on the cursor's line
jump_heading_not_strict(a, reverse) ==
    LET toc == a.doc.rendered.toc
        line == a.scroll
        before == {i \in 1..Len(toc) : toc[i].line <= line}
        after == {i \in 1..Len(toc) : toc[i].line >= line}
        target_index ==
            IF reverse
            THEN IF before = {} THEN 0
                 ELSE (CHOOSE i \in before : \A k \in before : k <= i) - 1
            ELSE IF after = {} THEN saturating_sub(Len(toc), 1)
                 ELSE (CHOOSE i \in after : \A k \in after : i <= k) - 1
    IN IF toc = <<>>
       THEN [a EXCEPT !.status = <<"No headings in TOC">>]
       ELSE jump_to_toc_index(a, target_index)

jump_heading_relative(a, reverse) ==
    LET toc == a.doc.rendered.toc
        line == a.scroll
        before == {i \in 1..Len(toc) : toc[i].line < line}
        after == {i \in 1..Len(toc) : toc[i].line > line}
        target_index ==
            IF reverse
            THEN IF before = {} THEN 0
                 ELSE (CHOOSE i \in before : \A k \in before : k <= i) - 1
            ELSE IF after = {} THEN saturating_sub(Len(toc), 1)
                 ELSE (CHOOSE i \in after : \A k \in after : i <= k) - 1
    IN IF toc = <<>>
       THEN [a EXCEPT !.status = <<"No headings in TOC">>]
       ELSE jump_to_toc_index(a, target_index)

(***************************************************************************)
(* App: search                                                             *)
(***************************************************************************)
\* the filter_map over lines: ascending 0-based indices of matching lines
RECURSIVE MatchingLines(_, _, _, _)
MatchingLines(lines, needle, idx, acc) ==
    IF idx >= Len(lines) THEN acc
    ELSE MatchingLines(lines, needle, idx + 1,
            IF contains(to_ascii_lowercase(lines[idx + 1].plain), needle)
            THEN Append(acc, idx) ELSE acc)

\* a search whose needle keeps the case typed
update_search_matches_needle_as_typed(a) ==
    IF a.search_query = <<>>
    THEN [a EXCEPT !.search_matches = <<>>, !.current_match = 0]
    ELSE LET needle == a.search_query
             matches == MatchingLines(a.doc.rendered.lines, needle, 0, <<>>)
             current == Min(a.current_match, saturating_sub(Len(matches), 1))
         IN IF matches = <<>>
            THEN [a EXCEPT !.search_matches = <<>>, !.current_match = 0]
            ELSE set_scroll_to_line(
                    [a EXCEPT !.search_matches = matches, !.current_match = current],
                    matches[current + 1])

update_search_matches(a) ==
    IF a.search_query = <<>>
    THEN [a EXCEPT !.search_matches = <<>>, !.current_match = 0]
    ELSE LET needle == to_ascii_lowercase(a.search_query)
             matches == MatchingLines(a.doc.rendered.lines, needle, 0, <<>>)
             current == Min(a.current_match, saturating_sub(Len(matches), 1))
         IN IF matches = <<>>
            THEN [a EXCEPT !.search_matches = <<>>, !.current_match = 0]
            ELSE set_scroll_to_line(
                    [a EXCEPT !.search_matches = matches, !.current_match = current],
                    matches[current + 1])

jump_to_next_match(a, reverse) ==
    IF a.search_matches = <<>> THEN a
    ELSE LET len == Len(a.search_matches)
             next == IF reverse
                     THEN IF a.current_match = 0 THEN saturating_sub(len, 1)
                          ELSE a.current_match - 1
                     ELSE (a.current_match + 1) % len
         IN set_scroll_to_line([a EXCEPT !.current_match = next],
                               a.search_matches[next + 1])

\* a cycle that stops at the last and at the first link
cycle_link_without_wrap(a, reverse) ==
    IF a.doc.rendered.links = <<>> THEN [a EXCEPT !.selected_link = None]
    ELSE LET len == Len(a.doc.rendered.links)
             idx == IF a.selected_link = None THEN 0 ELSE a.selected_link[1]
             next == IF reverse
                     THEN IF idx = 0 THEN 0 ELSE idx - 1
                     ELSE Min(idx + 1, len - 1)
             sel == [a EXCEPT !.selected_link = Some(next)]
         IN IF selected_link_line(sel) # None
            THEN set_scroll_to_line(sel, selected_link_line(sel)[1])
            ELSE sel

cycle_link(a, reverse) ==
    IF a.doc.rendered.links = <<>> THEN [a EXCEPT !.selected_link = None]
    ELSE LET len == Len(a.doc.rendered.links)
             idx == IF a.selected_link = None THEN 0 ELSE a.selected_link[1]
             next == IF reverse
                     THEN IF idx = 0 THEN len - 1 ELSE idx - 1
                     ELSE (idx + 1) % len
             sel == [a EXCEPT !.selected_link = Some(next)]
         IN IF selected_link_line(sel) # None
            THEN set_scroll_to_line(sel, selected_link_line(sel)[1])
            ELSE sel

(***************************************************************************)
(* App: snapshot store                                                     *)
(***************************************************************************)
WatchSnapshot(revision, rendered, diff) ==
    [revision |-> revision, rendered |-> rendered, diff |-> diff]

\* variant: a reset that starts the numbering again at 1
reset_restarting_revisions(a) ==
    [a EXCEPT !.next_revision = 2,
              !.snapshots = << WatchSnapshot(1, a.doc.rendered, SnapshotDiffDefault) >>,
              !.active_snapshot = 0]

\* variant: a reset that pushes the current document without clearing the store
reset_keeping_snapshots(a) ==
    [a EXCEPT !.next_revision = a.next_revision + 1,
              !.snapshots = Append(@, WatchSnapshot(a.next_revision, a.doc.rendered,
                                                    SnapshotDiffDefault)),
              !.active_snapshot = Len(a.snapshots)]

reset_snapshots_from_current_doc(a) ==
    [a EXCEPT !.next_revision = a.next_revision + 1,
              !.snapshots = << WatchSnapshot(a.next_revision, a.doc.rendered,
                                             SnapshotDiffDefault) >>,
              !.active_snapshot = 0]

\* variant: the scroll rule applied without regard to the search matches
PlaceScrollIgnoringSearch(searched, snapshot, old_scroll, fallback_to_first_hunk) ==
    IF old_scroll <= max_scroll(searched)
    THEN [searched EXCEPT !.scroll = old_scroll]
    ELSE IF fallback_to_first_hunk /\ snapshot.diff.hunks # <<>>
    THEN set_scroll_to_line(searched,
           hunk_anchor_line(snapshot.diff.hunks[1], Len(searched.doc.rendered.lines)))
    ELSE [searched EXCEPT !.scroll = max_scroll(searched)]

\* sync_doc_with_active_snapshot after update_search_matches: where scroll lands
PlaceScroll(searched, snapshot, old_scroll, fallback_to_first_hunk) ==
    IF searched.search_query = <<>> \/ searched.search_matches = <<>>
    THEN IF old_scroll <= max_scroll(searched)
         THEN [searched EXCEPT !.scroll = old_scroll]
         ELSE IF fallback_to_first_hunk /\ snapshot.diff.hunks # <<>>
         THEN set_scroll_to_line(searched,
                hunk_anchor_line(snapshot.diff.hunks[1], Len(searched.doc.rendered.lines)))
         ELSE [searched EXCEPT !.scroll = max_scroll(searched)]
    ELSE searched

\* variant: the scroll is placed for the snapshot, the document is not replaced
ShowSnapshotKeepingDoc(a, snapshot, old_scroll, fallback_to_first_hunk) ==
    sync_toc_selected_with_scroll(clamp_scroll(
        PlaceScroll(update_search_matches(a), snapshot, old_scroll, fallback_to_first_hunk)))

ShowSnapshot(a, snapshot, old_scroll, fallback_to_first_hunk) ==
    sync_toc_selected_with_scroll(clamp_scroll(
        PlaceScroll(update_search_matches(
                        [a EXCEPT !.doc.rendered = snapshot.rendered,
                                  !.selected_link = FirstLink(snapshot.rendered)]),
                    snapshot, old_scroll, fallback_to_first_hunk)))

sync_doc_with_active_snapshot(a, old_scroll, fallback_to_first_hunk) ==
    IF current_snapshot(a) = None THEN a
    ELSE ShowSnapshot(a, current_snapshot(a)[1], old_scroll, fallback_to_first_hunk)

\* variant: no eviction
EvictNothing(st) == st

\* variant: eviction that pops the front and leaves active_snapshot as it is
RECURSIVE EvictKeepingIndex(_)
EvictKeepingIndex(st) ==
    IF Len(st.app.snapshots) > st.app.history_capacity
    THEN EvictKeepingIndex([st EXCEPT !.app.snapshots = Tail(@),
                                      !.selected_evicted = st.app.active_snapshot = 0])
    ELSE st

\* the eviction loop of push_watch_snapshot; st = [app, selected_evicted]
RECURSIVE EvictLoop(_)
EvictLoop(st) ==
    IF Len(st.app.snapshots) > st.app.history_capacity
    THEN EvictLoop(
            IF st.app.active_snapshot > 0
            THEN [st EXCEPT !.app.snapshots = Tail(@),
                            !.app.active_snapshot = saturating_sub(@, 1)]
            ELSE [st EXCEPT !.app.snapshots = Tail(@),
                            !.selected_evicted = TRUE])
    ELSE st

\* variant: live mode does not follow the new snapshot
FollowOnlyWhenEvicted(evicted, was_live, old_scroll) ==
    IF evicted.selected_evicted
    THEN sync_doc_with_active_snapshot(evicted.app, old_scroll, TRUE)
    ELSE evicted.app

\* variant: the view is not rebound when the active snapshot is evicted
FollowOnlyWhenLive(evicted, was_live, old_scroll) ==
    IF was_live
    THEN sync_doc_with_active_snapshot(
            [evicted.app EXCEPT !.active_snapshot = latest_snapshot_index(evicted.app)],
            old_scroll, TRUE)
    ELSE evicted.app

\* push_watch_snapshot after the eviction loop
FollowAfterPush(evicted, was_live, old_scroll) ==
    IF was_live
    THEN sync_doc_with_active_snapshot(
            [evicted.app EXCEPT !.active_snapshot = latest_snapshot_index(evicted.app)],
            old_scroll, TRUE)
    ELSE IF evicted.selected_evicted
    THEN sync_doc_with_active_snapshot(evicted.app, old_scroll, TRUE)
    ELSE evicted.app

\* variant: an append is refused only when the whole rendering is unchanged
PushUnlessSameRendering(a, rendered, diff) ==
    IF a.snapshots # <<>> /\ rendered = a.snapshots[Len(a.snapshots)].rendered
    THEN [app |-> a, accepted |-> FALSE]
    ELSE [app |-> FollowAfterPush(
                    EvictLoop([app |-> [a EXCEPT !.next_revision = a.next_revision + 1,
                                                 !.snapshots = Append(@,
                                                    WatchSnapshot(a.next_revision, rendered, diff))],
                               selected_evicted |-> FALSE]),
                    is_live_mode(a), a.scroll),
          accepted |-> TRUE]

\* push_watch_snapshot once the diff against the last snapshot is known
PushWithDiff(a, rendered, diff) ==
    IF diff.hunks = <<>> /\ diff.added = 0 /\ diff.removed = 0
    THEN [app |-> a, accepted |-> FALSE]
    ELSE [app |-> FollowAfterPush(
                    EvictLoop([app |-> [a EXCEPT !.next_revision = a.next_revision + 1,
                                                 !.snapshots = Append(@,
                                                    WatchSnapshot(a.next_revision, rendered, diff))],
                               selected_evicted |-> FALSE]),
                    is_live_mode(a), a.scroll),
          accepted |-> TRUE]

\* returns [app, accepted]
push_watch_snapshot(a, rendered) ==
    PushWithDiff(a, rendered,
                 IF a.snapshots = <<>> THEN SnapshotDiffDefault
                 ELSE build_snapshot_diff(a.snapshots[Len(a.snapshots)].rendered, rendered))

(***************************************************************************)
(* App: timeline, revision and hunk navigation                             *)
(***************************************************************************)
\* a toggle that does not look at --watch
toggle_timeline_any_mode(a) == [a EXCEPT !.timeline_open = ~a.timeline_open]

toggle_timeline(a) ==
    IF ~a.cli.watch
    THEN [a EXCEPT !.status = <<"Timeline is available only in --watch mode">>]
    ELSE [a EXCEPT !.timeline_open = ~a.timeline_open]

\* the status written after an activation change in move_revision_relative
RevisionStatus(a) ==
    IF current_snapshot(a) = None THEN a.status
    ELSE LET behind == saturating_sub(latest_snapshot_index(a), a.active_snapshot)
             revision == current_snapshot(a)[1].revision
         IN IF behind = 0 THEN <<"LIVE", revision>>
            ELSE <<"HISTORY", revision, behind, "behind LIVE">>

\* variant: revision-forward without the clamp to the latest index
move_revision_unclamped(a, older) ==
    IF ~a.cli.watch
    THEN [a EXCEPT !.status = <<"Revision navigation is available only in --watch mode">>]
    ELSE IF Len(a.snapshots) <= 1
    THEN [a EXCEPT !.status = <<"No prior revisions yet">>]
    ELSE IF older /\ a.active_snapshot = 0
    THEN [a EXCEPT !.status = <<"Already at oldest revision">>]
    ELSE [a EXCEPT !.active_snapshot = IF older THEN a.active_snapshot - 1
                                       ELSE a.active_snapshot + 1]

move_revision_relative(a, older) ==
    LET next_index == IF older THEN saturating_sub(a.active_snapshot, 1)
                      ELSE Min(a.active_snapshot + 1, latest_snapshot_index(a))
        moved == sync_doc_with_active_snapshot(
                    [a EXCEPT !.active_snapshot = next_index], a.scroll, TRUE)
    IN IF ~a.cli.watch
       THEN [a EXCEPT !.status = <<"Revision navigation is available only in --watch mode">>]
       ELSE IF Len(a.snapshots) <= 1
       THEN [a EXCEPT !.status = <<"No prior revisions yet">>]
       ELSE IF next_index = a.active_snapshot
       THEN [a EXCEPT !.status = IF older THEN <<"Already at oldest revision">>
                                 ELSE <<"Already at latest revision">>]
       ELSE [moved EXCEPT !.status = RevisionStatus(moved)]

jump_to_live_revision(a) ==
    LET moved == sync_doc_with_active_snapshot(
                    [a EXCEPT !.active_snapshot = latest_snapshot_index(a)], a.scroll, TRUE)
    IN IF ~a.cli.watch
       THEN [a EXCEPT !.status = <<"Jump-to-live is available only in --watch mode">>]
       ELSE IF a.snapshots = <<>> THEN a
       ELSE IF is_live_mode(a)
       THEN [a EXCEPT !.status = <<"Already on LIVE revision">>]
       ELSE IF current_snapshot(moved) = None THEN moved
       ELSE [moved EXCEPT !.status = <<"Returned to LIVE", current_snapshot(moved)[1].revision>>]

\* the first / last of a set of 1-based positions, 0 if the set is empty
FirstIndexIn(hits) == IF hits = {} THEN 0 ELSE CHOOSE i \in hits : \A k \in hits : i <= k

LastIndexIn(hits) == IF hits = {} THEN 0 ELSE CHOOSE i \in hits : \A k \in hits : k <= i

\* a jump that also stops on an anchor equal to the cursor
jump_hunk_not_strict(a, reverse) ==
    IF current_snapshot(a) = None THEN [a EXCEPT !.status = <<"No active revision">>]
    ELSE LET snapshot == current_snapshot(a)[1]
             total_lines == Len(a.doc.rendered.lines)
             anchors == [i \in 1..Len(snapshot.diff.hunks) |->
                            hunk_anchor_line(snapshot.diff.hunks[i], total_lines)]
             cursor == a.scroll
             found == IF reverse
                      THEN LastIndexIn({i \in 1..Len(anchors) : anchors[i] <= cursor})
                      ELSE FirstIndexIn({i \in 1..Len(anchors) : anchors[i] >= cursor})
             target == IF found # 0 THEN anchors[found]
                       ELSE IF reverse THEN anchors[Len(anchors)] ELSE anchors[1]
             hunk_number == FirstIndexIn({i \in 1..Len(anchors) : anchors[i] = target})
             moved == set_scroll_to_line(a, target)
         IN IF snapshot.diff.hunks = <<>>
            THEN [a EXCEPT !.status = <<"No changed hunks in selected revision">>]
            ELSE [moved EXCEPT !.status = <<"Hunk", hunk_number, Len(anchors)>>]

jump_hunk_relative(a, reverse) ==
    IF current_snapshot(a) = None THEN [a EXCEPT !.status = <<"No active revision">>]
    ELSE LET snapshot == current_snapshot(a)[1]
             total_lines == Len(a.doc.rendered.lines)
             anchors == [i \in 1..Len(snapshot.diff.hunks) |->
                            hunk_anchor_line(snapshot.diff.hunks[i], total_lines)]
             cursor == a.scroll
             found == IF reverse
                      THEN LastIndexIn({i \in 1..Len(anchors) : anchors[i] < cursor})
                      ELSE FirstIndexIn({i \in 1..Len(anchors) : anchors[i] > cursor})
             target == IF found # 0 THEN anchors[found]
                       ELSE IF reverse THEN anchors[Len(anchors)] ELSE anchors[1]
             hunk_number == FirstIndexIn({i \in 1..Len(anchors) : anchors[i] = target})
             moved == set_scroll_to_line(a, target)
         IN IF snapshot.diff.hunks = <<>>
            THEN [a EXCEPT !.status = <<"No changed hunks in selected revision">>]
            ELSE [moved EXCEPT !.status = <<"Hunk", hunk_number, Len(anchors)>>]

(***************************************************************************)
(* App: documents, reload, watcher, links, backstack                       *)
(***************************************************************************)
\* load = [path, rendered]: rendered is render_markdown(load.source)
set_doc(a, load, preserve_scroll) ==
    LET old_scroll == a.scroll
        loaded == [a EXCEPT !.doc = [path |-> load.path, rendered |-> load.rendered],
                            !.selected_link = FirstLink(load.rendered),
                            !.scroll = IF preserve_scroll THEN old_scroll ELSE 0]
    IN sync_toc_selected_with_scroll(
          clamp_scroll(update_search_matches(reset_snapshots_from_current_doc(loaded))))

\* returns [app, err]; watch_ok: the OS accepts the new watch
ensure_watcher(a, watch_ok) ==
    IF ~a.cli.watch THEN [app |-> [a EXCEPT !.watcher = None], err |-> FALSE]
    ELSE IF a.doc.path = None THEN [app |-> [a EXCEPT !.watcher = None], err |-> FALSE]
    ELSE IF ~watch_ok THEN [app |-> a, err |-> TRUE]
    ELSE [app |-> [a EXCEPT !.watcher = Some([rx |-> <<>>])], err |-> FALSE]

\* the status written by reload_current after an accepted push; back is the
\* newest snapshot
ReloadedStatus(path, after, back, was_live) ==
    IF was_live
    THEN IF back.diff.overflow
         THEN <<"Reloaded", path, back.revision, back.diff.added,
                back.diff.removed, "fallback diff">>
         ELSE <<"Reloaded", path, back.revision, back.diff.added,
                back.diff.removed, "sections",
                Cardinality(DOMAIN back.diff.section_deltas)>>
    ELSE <<"LIVE advanced to", back.revision, "viewing historical snapshot",
           saturating_sub(latest_snapshot_index(after), after.active_snapshot)>>

\* reload_current after push_watch_snapshot returned
ReloadPushed(after, accepted, path, was_live, watch_ok) ==
    ensure_watcher(
        [after EXCEPT !.status =
            IF accepted
            THEN ReloadedStatus(path, after, after.snapshots[Len(after.snapshots)], was_live)
            ELSE <<"Reloaded", path, "no text changes">>],
        watch_ok)

ReloadPush(pushed, path, was_live, watch_ok) ==
    ReloadPushed(pushed.app, pushed.accepted, path, was_live, watch_ok)

\* read: None when fs::read_to_string fails, else Some(rendering of what was read).
\* returns [app, err]
reload_current(a, read, watch_ok) ==
    IF a.doc.path = None THEN [app |-> a, err |-> FALSE]
    ELSE IF read = None THEN [app |-> a, err |-> TRUE]
    ELSE ReloadPush(push_watch_snapshot(a, read[1]), a.doc.path[1], is_live_mode(a), watch_ok)

\* a drain that takes every event, failed ones included, as a request
poll_watch_any_event(a) ==
    IF a.watcher = None THEN a
    ELSE LET rx == a.watcher[1].rx
         IN [a EXCEPT !.watcher = Some([rx |-> <<>>]),
                      !.watch_requested = IF rx # <<>> THEN TRUE ELSE a.watch_requested]

poll_watch(a) ==
    IF a.watcher = None THEN a
    ELSE LET rx == a.watcher[1].rx
         IN [a EXCEPT !.watcher = Some([rx |-> <<>>]),
                      !.watch_requested = IF \E i \in 1..Len(rx) : rx[i] = "Ok"
                                          THEN TRUE ELSE a.watch_requested]

\* a path or a message is a string; the characters of a string, and the
\* string of a text
Chars(s) == [i \in 1..Len(s) |-> SubSeq(s, i, i)]

RECURSIVE Str(_)
Str(text) == IF text = <<>> THEN "" ELSE text[1] \o Str(Tail(text))

\* str::starts_with
StartsWith(text, prefix) ==
    Len(text) >= Len(prefix) /\ SubSeq(text, 1, Len(prefix)) = prefix

\* the index of the first occurrence of the character in the text, 0 if none
FirstIndexOf(text, c) ==
    IF \E i \in 1..Len(text) : text[i] = c
    THEN CHOOSE i \in 1..Len(text) : text[i] = c /\ \A j \in 1..(i - 1) : text[j] # c
    ELSE 0

\* the index of the last occurrence of the character in the text, 0 if none
LastIndexOf(text, c) ==
    IF \E i \in 1..Len(text) : text[i] = c
    THEN CHOOSE i \in 1..Len(text) : text[i] = c /\ \A j \in (i + 1)..Len(text) : text[j] # c
    ELSE 0

\* the components of a path, the empty ones left out
RECURSIVE Components(_)
Components(path) ==
    IF path = <<>> THEN <<>>
    ELSE IF FirstIndexOf(path, "/") = 0 THEN <<path>>
    ELSE (IF FirstIndexOf(path, "/") = 1 THEN <<>>
          ELSE << SubSeq(path, 1, FirstIndexOf(path, "/") - 1) >>)
             \o Components(SubSeq(path, FirstIndexOf(path, "/") + 1, Len(path)))

\* the components once "." is dropped and ".." has removed the one before it
RECURSIVE Resolved(_, _)
Resolved(stack, components) ==
    IF components = <<>> THEN stack
    ELSE IF components[1] = <<".">> THEN Resolved(stack, Tail(components))
    ELSE IF components[1] = <<".", ".">>
    THEN Resolved(SubSeq(stack, 1, Len(stack) - 1), Tail(components))
    ELSE Resolved(Append(stack, components[1]), Tail(components))

RECURSIVE JoinComponents(_)
JoinComponents(components) ==
    IF components = <<>> THEN <<>>
    ELSE <<"/">> \o components[1] \o JoinComponents(Tail(components))

\* the path as Path::components sees its end: separators and "." components
\* after the last name do not count
RECURSIVE TrimRight(_)
TrimRight(path) ==
    IF Len(path) > 1 /\ path[Len(path)] = "/"
    THEN TrimRight(SubSeq(path, 1, Len(path) - 1))
    ELSE IF Len(path) > 1 /\ SubSeq(path, Len(path) - 1, Len(path)) = <<"/", ".">>
    THEN TrimRight(SubSeq(path, 1, Len(path) - 1))
    ELSE path

\* Path::parent: the path without its last component; None for the empty
\* path and for the root
PathParent(path) ==
    LET trimmed == TrimRight(path)
    IN IF trimmed = <<>> \/ trimmed = <<"/">> THEN None
       ELSE IF LastIndexOf(trimmed, "/") = 0 THEN Some(<<>>)
       ELSE Some(TrimRight(SubSeq(trimmed, 1, LastIndexOf(trimmed, "/"))))

\* Path::join
PathJoin(base, path) ==
    IF StartsWith(path, <<"/">>) \/ base = <<>> THEN path
    ELSE IF base[Len(base)] = "/" THEN base \o path
    ELSE base \o <<"/">> \o path

\* Path::extension: what follows the last dot of the file name, unless the
\* path ends in "..", or the name has no dot or only the dot it starts with
PathExtension(path) ==
    LET trimmed == TrimRight(path)
        name == SubSeq(trimmed, LastIndexOf(trimmed, "/") + 1, Len(trimmed))
    IN IF name = <<".", ".">> \/ LastIndexOf(name, ".") <= 1 THEN None
       ELSE Some(SubSeq(name, LastIndexOf(name, ".") + 1, Len(name)))

\* target.split_once('#'): the part before the first '#'
PathPart(target) ==
    IF FirstIndexOf(target, "#") = 0 THEN target
    ELSE SubSeq(target, 1, FirstIndexOf(target, "#") - 1)

\* the path part resolved against the directory of the current document
ResolvedPath(path_part, current_doc) ==
    IF StartsWith(path_part, <<"/">>) \/ current_doc = None
           \/ PathParent(Chars(current_doc[1])) = None
    THEN path_part
    ELSE PathJoin(PathParent(Chars(current_doc[1]))[1], path_part)

MarkdownExtensions == {Chars("md"), Chars("markdown"), Chars("mdx")}

\* target: the destination of the link as written; exists: resolved.exists()
classify_link(target, current_doc, exists) ==
    LET resolved == ResolvedPath(PathPart(target), current_doc)
        ext == PathExtension(resolved)
    IN IF StartsWith(target, Chars("http://")) \/ StartsWith(target, Chars("https://"))
       THEN [kind |-> "ExternalUrl", arg |-> Str(target)]
       ELSE IF StartsWith(target, <<"#">>) \/ PathPart(target) = <<>>
       THEN [kind |-> "Anchor", arg |-> Str(target)]
       ELSE IF ext # None /\ to_ascii_lowercase(ext[1]) \in MarkdownExtensions
       THEN [kind |-> "InternalMarkdown", arg |-> Str(resolved)]
       ELSE IF exists THEN [kind |-> "ExternalPath", arg |-> Str(resolved)]
       ELSE [kind |-> "Unknown", arg |-> Str(target)]

\* fs::canonicalize(&path).unwrap_or(path.clone()); canonical: None when
\* fs::canonicalize fails, else the absolute path it returns
canonicalize_or(path, canonical) == IF canonical = None THEN path ELSE canonical[1]

\* env = [read, open_ok, watch_ok, exists, canonical]; returns [app, err]
open_selected_link(a, force_external, env) ==
    IF a.selected_link = None
    THEN [app |-> [a EXCEPT !.status = <<"No link selected">>], err |-> FALSE]
    ELSE IF a.selected_link[1] >= Len(a.doc.rendered.links)
    THEN [app |-> [a EXCEPT !.status = <<"Invalid link selection">>], err |-> FALSE]
    ELSE LET link == a.doc.rendered.links[a.selected_link[1] + 1]
             action == classify_link(link.target, a.doc.path, env.exists)
             canonical == canonicalize_or(action.arg, env.canonical)
             pushed == IF a.doc.path # None
                       THEN [a EXCEPT !.backstack =
                                Append(@, [path |-> a.doc.path[1], scroll |-> a.scroll])]
                       ELSE a
             opened == ensure_watcher(
                          set_doc(pushed, [path |-> Some(canonical), rendered |-> env.read[1]],
                                  FALSE),
                          env.watch_ok)
         IN IF action.kind = "Anchor"
            THEN [app |-> [a EXCEPT !.status = <<"Anchor links not yet implemented", action.arg>>],
                  err |-> FALSE]
            ELSE IF ~force_external /\ action.kind = "InternalMarkdown"
            THEN IF env.read = None THEN [app |-> pushed, err |-> TRUE]
                 ELSE IF opened.err THEN opened
                 ELSE [app |-> [opened.app EXCEPT !.status = <<"Opened", canonical>>],
                       err |-> FALSE]
            ELSE IF ~env.open_ok THEN [app |-> a, err |-> TRUE]
            ELSE [app |-> [a EXCEPT !.status = <<"Opened", action.arg>>], err |-> FALSE]

\* env = [read, open_ok, watch_ok, exists]; returns [app, err]
\* a back-pop that leaves the scroll where set_doc put it
go_back_without_scroll(a, env) ==
    IF a.backstack = <<>>
    THEN [app |-> [a EXCEPT !.status = <<"Backstack is empty">>], err |-> FALSE]
    ELSE LET entry == a.backstack[Len(a.backstack)]
             popped == [a EXCEPT !.backstack = SubSeq(@, 1, Len(@) - 1)]
             restored == ensure_watcher(
                            set_doc(popped, [path |-> Some(entry.path), rendered |-> env.read[1]],
                                    FALSE),
                            env.watch_ok)
         IN IF env.read = None THEN [app |-> popped, err |-> TRUE]
            ELSE IF restored.err THEN restored
            ELSE [app |-> [restored.app EXCEPT !.status = <<"Returned to", entry.path>>],
                  err |-> FALSE]

go_back(a, env) ==
    IF a.backstack = <<>>
    THEN [app |-> [a EXCEPT !.status = <<"Backstack is empty">>], err |-> FALSE]
    ELSE LET entry == a.backstack[Len(a.backstack)]
             popped == [a EXCEPT !.backstack = SubSeq(@, 1, Len(@) - 1)]
             restored == ensure_watcher(
                            set_scroll_and_sync(
                               set_doc(popped, [path |-> Some(entry.path), rendered |-> env.read[1]],
                                       FALSE),
                               entry.scroll),
                            env.watch_ok)
         IN IF env.read = None THEN [app |-> popped, err |-> TRUE]
            ELSE IF restored.err THEN restored
            ELSE [app |-> [restored.app EXCEPT !.status = <<"Returned to", entry.path>>],
                  err |-> FALSE]


(***************************************************************************)
(* App: drawing and key dispatch                                           *)
(***************************************************************************)
\* Layout::vertical([Min(1), Length(..), Length(1)]): the Min(1) region gets
\* what the fixed-length regions leave, and its one row before they get any
VerticalBody(total, fixed) == Max(Min(total, 1), saturating_sub(total, fixed))

\* the regions draw() computes for a frame of the given height
DrawLayout(a, height) ==
    LET root_height == height
        max_dock_height == saturating_sub(root_height, 3)
        docked == /\ a.cli.watch
                  /\ a.timeline_open
                  /\ max_dock_height >= TIMELINE_MIN_HEIGHT
                  /\ root_height >= 5
        dock_height == Max(Min(a.timeline_height, max_dock_height), TIMELINE_MIN_HEIGHT)
    IN IF docked
       THEN [body |-> VerticalBody(root_height, dock_height + 1),
             timeline |-> Some(dock_height), status |-> 1]
       ELSE [body |-> VerticalBody(root_height, 1), timeline |-> None,
             status |-> Min(1, root_height - VerticalBody(root_height, 1))]

draw(a, height) ==
    LET content_area_height == DrawLayout(a, height).body
    IN clamp_scroll([a EXCEPT !.viewport_height =
                                Max(saturating_sub(content_area_height, 1), 1)])

\* a key event is named by its code, after "C-" when CONTROL is held and
\* "A-" when ALT is held ("C-A-" for both): "q", "C-d", "A-n", "Enter", "C-Left"
HasPrefix(key, prefix) == Len(key) > Len(prefix) /\ SubSeq(key, 1, Len(prefix)) = prefix

\* key.modifiers.contains(KeyModifiers::CONTROL)
HasControl(key) == HasPrefix(key, "C-")

\* key.modifiers.contains(KeyModifiers::ALT)
HasAlt(key) == HasPrefix(key, "A-") \/ HasPrefix(key, "C-A-")

\* key.code
KeyCodeOf(key) ==
    IF HasPrefix(key, "C-A-") THEN SubSeq(key, 5, Len(key))
    ELSE IF HasControl(key) \/ HasAlt(key) THEN SubSeq(key, 3, Len(key))
    ELSE key

\* KeyCode::Char(c): the codes of one character; the other codes have names
IsChar(code) == Len(code) = 1

\* the character a Char key carries, as text
KeyChar(key) == <<KeyCodeOf(key)>>

handle_search_input(a, key) ==
    IF KeyCodeOf(key) \in {"Esc", "Enter"} THEN [a EXCEPT !.search_mode = FALSE]
    ELSE IF KeyCodeOf(key) = "Backspace"
    THEN update_search_matches(
            [a EXCEPT !.search_query = SubSeq(@, 1, saturating_sub(Len(@), 1)),
                      !.current_match = 0])
    ELSE IF IsChar(KeyCodeOf(key)) /\ ~HasControl(key) /\ ~HasAlt(key)
    THEN update_search_matches(
            [a EXCEPT !.search_query = @ \o KeyChar(key), !.current_match = 0])
    ELSE a

\* env = [read, open_ok, watch_ok, exists, canonical]; returns [app, quit, err]
handle_key(a, key, env) ==
    LET Stay(next) == [app |-> next, quit |-> FALSE, err |-> FALSE]
        Tried(res) == [app |-> res.app, quit |-> FALSE, err |-> res.err]
        half == Max(a.viewport_height \div 2, 1)
        code == KeyCodeOf(key)
    IN IF a.search_mode THEN Stay(handle_search_input(a, key))
       ELSE CASE code = "q" -> [app |-> a, quit |-> TRUE, err |-> FALSE]
         [] code = "v" -> Stay(toggle_timeline(a))
         [] code \in {"h", "Left"} -> Stay(move_revision_relative(a, TRUE))
         [] code \in {"l", "Right"} -> Stay(move_revision_relative(a, FALSE))
         [] code = "L" -> Stay(jump_to_live_revision(a))
         [] code = "(" -> Stay(jump_hunk_relative(a, TRUE))
         [] code = ")" -> Stay(jump_hunk_relative(a, FALSE))
         [] code \in {"j", "Down"} ->
                Stay(IF a.toc_open THEN move_toc_selection(a, FALSE)
                     ELSE set_scroll_and_sync(a, u16_saturating_add(a.scroll, 1)))
         [] code \in {"k", "Up"} ->
                Stay(IF a.toc_open THEN move_toc_selection(a, TRUE)
                     ELSE set_scroll_and_sync(a, saturating_sub(a.scroll, 1)))
         [] code = "g" -> Stay(set_scroll_and_sync(a, 0))
         [] code = "G" -> Stay(set_scroll_and_sync(a, max_scroll(a)))
         [] code = "d" /\ HasControl(key) -> Stay(set_scroll_and_sync(a, u16_saturating_add(a.scroll, half)))
         [] code = "u" /\ HasControl(key) -> Stay(set_scroll_and_sync(a, saturating_sub(a.scroll, half)))
         [] code = "t" ->
                Stay(IF ~a.toc_open
                     THEN sync_toc_selected_with_scroll([a EXCEPT !.toc_open = TRUE])
                     ELSE [a EXCEPT !.toc_open = FALSE])
         [] code = "Tab" -> Stay(cycle_link(a, FALSE))
         [] code = "BackTab" -> Stay(cycle_link(a, TRUE))
         [] code = "Enter" ->
                IF a.toc_open THEN Stay(jump_to_toc_selected(a))
                ELSE Tried(open_selected_link(a, FALSE, env))
         [] code = "o" -> Tried(open_selected_link(a, TRUE, env))
         [] code = "]" -> Stay(jump_heading_relative(a, FALSE))
         [] code = "[" -> Stay(jump_heading_relative(a, TRUE))
         [] code = "Backspace" -> Tried(go_back(a, env))
         [] code = "/" ->
                Stay([a EXCEPT !.search_mode = TRUE, !.search_query = <<>>,
                               !.search_matches = <<>>, !.current_match = 0])
         [] code = "n" -> Stay(jump_to_next_match(a, FALSE))
         [] code = "N" -> Stay(jump_to_next_match(a, TRUE))
         [] OTHER -> Stay(a)


(***************************************************************************)
(* Renderer: the state render_markdown builds while it consumes the events *)
(* of the parser.  A text is a sequence of characters, each a string of    *)
(* length one; a character the syntax of strings cannot hold is written as *)
(* its code point, "U+2500".                                               *)
(***************************************************************************)
\* usize::MAX, the line of a LinkRef not yet flushed; the largest number the
\* checker represents stands for it
USIZE_MAX == 2147483647

saturating_add(a, b) == IF a >= USIZE_MAX - b THEN USIZE_MAX ELSE a + b

\* ratatui Style: foreground and background colour, modifiers
Style(fg, modifiers) == [fg |-> fg, bg |-> "Reset", modifiers |-> modifiers]

RECURSIVE Repeat(_, _)
Repeat(text, n) == IF n <= 0 THEN <<>> ELSE text \o Repeat(text, n - 1)

\* the characters with the Unicode property White_Space, which str::trim strips
WhiteSpace ==
    {" ", "\t", "\n", "\r", "\f", "U+000B", "U+0085", "U+00A0", "U+1680",
     "U+2000", "U+2001", "U+2002", "U+2003", "U+2004", "U+2005", "U+2006",
     "U+2007", "U+2008", "U+2009", "U+200A", "U+2028", "U+2029", "U+202F",
     "U+205F", "U+3000"}

\* str::trim
RECURSIVE trim(_)
trim(text) ==
    IF text = <<>> THEN text
    ELSE IF text[1] \in WhiteSpace THEN trim(Tail(text))
    ELSE IF text[Len(text)] \in WhiteSpace THEN trim(SubSeq(text, 1, Len(text) - 1))
    ELSE text

DecimalDigits == <<"0", "1", "2", "3", "4", "5", "6", "7", "8", "9">>

\* format!("{}", n) of an unsigned number
RECURSIVE Digits(_)
Digits(n) ==
    IF n < 10 THEN << DecimalDigits[n + 1] >>
    ELSE Digits(n \div 10) \o << DecimalDigits[(n % 10) + 1] >>

\* TableState::new(alignments)
TableStateNew(alignments) ==
    [in_head |-> FALSE, in_row |-> FALSE, in_cell |-> FALSE,
     headers |-> <<>>, rows |-> <<>>, current_row |-> <<>>, current_cell |-> <<>>,
     alignments |-> alignments]

RendererNew ==
    [lines |-> <<>>, toc |-> <<>>, links |-> <<>>,
     inline |-> [emphasis |-> 0, strong |-> 0, strikethrough |-> 0, link_depth |-> 0],
     current_segments |-> <<>>, current_plain |-> <<>>, current_line_link_indices |-> <<>>,
     active_link |-> None, active_image |-> None,
     heading_level |-> None, blockquote_depth |-> 0, list_stack |-> <<>>,
     code_block_lang |-> None, code_block_buf |-> <<>>, table |-> None]

\* InlineState::style
InlineStyle(inline) ==
    Style(IF inline.link_depth > 0 THEN "Cyan" ELSE "Reset",
          (IF inline.emphasis > 0 THEN {"ITALIC"} ELSE {})
          \cup (IF inline.strong > 0 THEN {"BOLD"} ELSE {})
          \cup (IF inline.strikethrough > 0 THEN {"CROSSED_OUT"} ELSE {})
          \cup (IF inline.link_depth > 0 THEN {"UNDERLINED"} ELSE {}))

push_text(r, text, style) ==
    IF text = <<>> THEN r
    ELSE [r EXCEPT !.current_plain = @ \o text,
                   !.current_segments = Append(@, [text |-> text, style |-> style])]

push_styled_plain_text(r, text) ==
    push_text(r, text,
              IF r.heading_level # None
              THEN Style(CASE r.heading_level[1] = 1 -> "Yellow"
                           [] r.heading_level[1] = 2 -> "LightMagenta"
                           [] OTHER -> "LightCyan",
                         {"BOLD"})
              ELSE InlineStyle(r.inline))

push_prefix_if_needed(r) ==
    IF r.current_plain # <<>> THEN r
    ELSE IF r.blockquote_depth > 0
    THEN push_text(r, Repeat(<<">", " ">>, r.blockquote_depth), Style("DarkGray", {}))
    ELSE r

flush_line(r, force_empty) ==
    IF ~force_empty /\ r.current_segments = <<>> /\ r.current_plain = <<>> THEN r
    ELSE [r EXCEPT
            !.links = [i \in DOMAIN @ |->
                         IF \E k \in DOMAIN r.current_line_link_indices :
                                r.current_line_link_indices[k] = i - 1
                         THEN [@[i] EXCEPT !.line = Len(r.lines)]
                         ELSE @[i]],
            !.lines = Append(@, [segments |-> r.current_segments, plain |-> r.current_plain]),
            !.current_segments = <<>>,
            !.current_plain = <<>>,
            !.current_line_link_indices = <<>>]

blank_line(r) ==
    IF r.lines # <<>> /\ r.lines[Len(r.lines)].plain = <<>> THEN r
    ELSE flush_line(r, TRUE)

\* Tag::Item once the line before it is flushed
StartItem(r) ==
    LET depth == saturating_sub(Len(r.list_stack), 1)
        last == r.list_stack[Len(r.list_stack)]
        bullet == IF r.list_stack # <<>> /\ last.ordered
                  THEN Digits(last.next_index) \o <<".", " ">>
                  ELSE <<"-", " ">>
        stack == IF r.list_stack # <<>> /\ last.ordered
                 THEN [r.list_stack EXCEPT
                          ![Len(r.list_stack)].next_index = saturating_add(@, 1)]
                 ELSE r.list_stack
    IN push_text([r EXCEPT !.list_stack = stack],
                 Repeat(<<" ", " ">>, depth) \o bullet, Style("DarkGray", {}))

\* the tags handled by the table that is open
TableStartTags == {"TableHead", "TableRow", "TableCell"}

\* the first match of handle_start, taken while a table is open
StartInTable(r, tag) ==
    CASE tag.tag = "TableHead" -> [r EXCEPT !.table[1].in_head = TRUE]
      [] tag.tag = "TableRow" ->
            [r EXCEPT !.table[1].in_row = TRUE, !.table[1].current_row = <<>>]
      [] tag.tag = "TableCell" ->
            [r EXCEPT !.table[1].in_cell = TRUE, !.table[1].current_cell = <<>>]

handle_start(r, tag) ==
    IF r.table # None /\ tag.tag \in TableStartTags THEN StartInTable(r, tag)
    ELSE
    CASE tag.tag = "Heading" ->
            [flush_line(r, FALSE) EXCEPT !.heading_level = Some(tag.level)]
      [] tag.tag = "BlockQuote" ->
            [flush_line(r, FALSE) EXCEPT !.blockquote_depth = saturating_add(@, 1)]
      [] tag.tag = "CodeBlock" ->
            [flush_line(r, FALSE) EXCEPT !.code_block_lang = Some(tag.text),
                                         !.code_block_buf = <<>>]
      [] tag.tag = "List" ->
            [r EXCEPT !.list_stack =
                Append(@, IF tag.start # None
                          THEN [ordered |-> TRUE, next_index |-> tag.start[1]]
                          ELSE [ordered |-> FALSE, next_index |-> 1])]
      [] tag.tag = "Item" -> StartItem(flush_line(r, FALSE))
      [] tag.tag = "Emphasis" -> [r EXCEPT !.inline.emphasis = saturating_add(@, 1)]
      [] tag.tag = "Strong" -> [r EXCEPT !.inline.strong = saturating_add(@, 1)]
      [] tag.tag = "Strikethrough" ->
            [r EXCEPT !.inline.strikethrough = saturating_add(@, 1)]
      [] tag.tag = "Link" ->
            [r EXCEPT !.inline.link_depth = saturating_add(@, 1),
                      !.active_link = Some([target |-> tag.text, text |-> <<>>])]
      [] tag.tag = "Image" ->
            [r EXCEPT !.active_image = Some([target |-> tag.text, alt |-> <<>>])]
      [] tag.tag = "Table" ->
            [flush_line(r, FALSE) EXCEPT !.table = Some(TableStateNew(tag.alignments))]
      [] OTHER -> r

\* a heading end that keeps the headings of every level
EndHeadingAnyLevel(r, level) ==
    LET line_idx == saturating_sub(Len(r.lines), 1)
        title == IF line_idx < Len(r.lines) THEN trim(r.lines[line_idx + 1].plain) ELSE <<>>
    IN blank_line([r EXCEPT
            !.toc = IF title # <<>>
                    THEN Append(@, [level |-> level, title |-> title, line |-> line_idx])
                    ELSE @,
            !.heading_level = None])

\* TagEnd::Heading once the heading's line is flushed
EndHeading(r, level) ==
    LET line_idx == saturating_sub(Len(r.lines), 1)
        title == IF line_idx < Len(r.lines) THEN trim(r.lines[line_idx + 1].plain) ELSE <<>>
    IN blank_line([r EXCEPT
            !.toc = IF level <= 3 /\ title # <<>>
                    THEN Append(@, [level |-> level, title |-> title, line |-> line_idx])
                    ELSE @,
            !.heading_level = None])

EndLink(r) ==
    IF r.active_link = None
    THEN [r EXCEPT !.inline.link_depth = saturating_sub(@, 1)]
    ELSE [r EXCEPT
            !.inline.link_depth = saturating_sub(@, 1),
            !.links = Append(@, [label |-> IF trim(r.active_link[1].text) = <<>>
                                           THEN r.active_link[1].target
                                           ELSE trim(r.active_link[1].text),
                                 target |-> r.active_link[1].target,
                                 line |-> USIZE_MAX]),
            !.current_line_link_indices = Append(@, Len(r.links)),
            !.active_link = None]

EndImage(r) ==
    IF r.active_image = None THEN r
    ELSE push_text([r EXCEPT !.active_image = None],
                   <<"[", "i", "m", "a", "g", "e", ":", " ">>
                       \o (IF trim(r.active_image[1].alt) = <<>>
                           THEN <<"i", "m", "a", "g", "e">>
                           ELSE trim(r.active_image[1].alt))
                       \o <<"]", " ", "(">> \o r.active_image[1].target \o <<")">>,
                   Style("LightBlue", {}))

\* LinesWithEndings::from(code): the code cut after each line feed
RECURSIVE LinesWithEndings(_)
LinesWithEndings(code) ==
    IF code = <<>> THEN <<>>
    ELSE IF FirstIndexOf(code, "\n") = 0 THEN <<code>>
    ELSE <<SubSeq(code, 1, FirstIndexOf(code, "\n"))>>
             \o LinesWithEndings(SubSeq(code, FirstIndexOf(code, "\n") + 1, Len(code)))

\* str::strip_suffix(c), the text itself when it does not end with c
strip_suffix(text, c) ==
    IF text # <<>> /\ text[Len(text)] = c THEN SubSeq(text, 1, Len(text) - 1) ELSE text

\* token.replace('\n', "")
RECURSIVE WithoutLineFeeds(_)
WithoutLineFeeds(token) ==
    IF token = <<>> THEN <<>>
    ELSE (IF token[1] = "\n" THEN <<>> ELSE <<token[1]>>) \o WithoutLineFeeds(Tail(token))

\* syntect, the highlighting library, lies outside the repository: the syntaxes
\* it knows and what its highlighter answers are inputs.  A syntax set names
\* the language tokens it has a syntax for, and the answers a highlighter
\* gives line after line, under the plain-text syntax and under the syntax of
\* a language: an error, or tokens, each a text with its style, a foreground
\* and a background Rgb colour
SyntaxSet(tokens, plain, highlighted) ==
    [tokens |-> tokens, plain |-> plain, highlighted |-> highlighted]

HighlightError == [ok |-> FALSE, tokens |-> <<>>]

Highlighted(tokens) == [ok |-> TRUE, tokens |-> tokens]

\* the syntax of a fence: plain text for a blank language and for a language
\* find_syntax_by_token does not know
find_syntax(syntax_set, lang) ==
    IF trim(lang) = <<>> THEN <<"Plain Text">>
    ELSE IF lang \in syntax_set.tokens THEN <<"Syntax", lang>>
    ELSE <<"Plain Text">>

\* HighlightLines::new(syntax, self.theme): the highlighter of one block, its
\* state what it has yet to answer
HighlightLinesNew(syntax_set, syntax) ==
    [syntax |-> syntax,
     answers |-> IF syntax = <<"Plain Text">> THEN syntax_set.plain
                 ELSE syntax_set.highlighted]

\* highlighter.highlight_line(line, self.syntax_set).unwrap_or_default(): the
\* tokens, none when the library fails, and the highlighter after the line; a
\* highlighter asked for more than its answers fails
highlight_line(highlighter, line) ==
    LET answer == IF highlighter.answers = <<>> THEN HighlightError
                  ELSE Head(highlighter.answers)
    IN [tokens |-> IF answer.ok THEN answer.tokens ELSE <<>>,
        highlighter |-> [highlighter EXCEPT
                            !.answers = IF @ = <<>> THEN @ ELSE Tail(@)]]

\* Style::default().fg(Color::Rgb(..)).bg(Color::Rgb(..)) of a token
TokenStyle(syn_style) ==
    [fg |-> syn_style.foreground, bg |-> syn_style.background, modifiers |-> {}]

RECURSIVE PushTokens(_, _)
PushTokens(r, tokens) ==
    IF tokens = <<>> THEN r
    ELSE PushTokens(push_text(r, WithoutLineFeeds(tokens[1].token),
                              TokenStyle(tokens[1].style)),
                    Tail(tokens))

\* one turn of the loop of render_code_block, given the highlighter's tokens
CodeLine(r, highlighted_tokens, line) ==
    LET clean == strip_suffix(strip_suffix(line, "\n"), "\r")
        indented == push_text(r, <<" ", " ">>, Style("DarkGray", {}))
    IN flush_line(IF highlighted_tokens = <<>>
                  THEN push_text(indented, clean, Style("LightGreen", {}))
                  ELSE PushTokens(indented, highlighted_tokens),
                  FALSE)

\* the loop of render_code_block: one highlighter goes through all the lines
RECURSIVE CodeLines(_, _, _)
CodeLines(r, highlighter, code_lines) ==
    IF code_lines = <<>> THEN r
    ELSE CodeLines(CodeLine(r, highlight_line(highlighter, code_lines[1]).tokens,
                            code_lines[1]),
                   highlight_line(highlighter, code_lines[1]).highlighter,
                   Tail(code_lines))

render_code_block(r, syntax_set, lang, code) ==
    CodeLines(r, HighlightLinesNew(syntax_set, find_syntax(syntax_set, lang)),
              LinesWithEndings(code))

\* format!("{cell:<width$}")
PadRight(cell, width) == cell \o Repeat(<<" ">>, width - Len(cell))

RECURSIVE FormatCells(_, _, _)
FormatCells(row, widths, idx) ==
    IF idx > Len(row) THEN <<>>
    ELSE PadRight(row[idx], widths[idx]) \o <<" ", "|", " ">>
             \o FormatCells(row, widths, idx + 1)

format_table_row(row, widths) == <<"|", " ">> \o FormatCells(row, widths, 1)

\* the cell under the header that tells the alignment of a column
SeparatorCell(align, width) ==
    CASE align = "Left" -> <<":">> \o Repeat(<<"-">>, saturating_sub(width, 1))
      [] align = "Center" ->
            IF width <= 1 THEN <<":">>
            ELSE <<":">> \o Repeat(<<"-">>, saturating_sub(width, 2)) \o <<":">>
      [] align = "Right" -> Repeat(<<"-">>, saturating_sub(width, 1)) \o <<":">>
      [] OTHER -> Repeat(<<"-">>, width)

\* the largest number of a non-empty set
Largest(S) == CHOOSE x \in S : \A y \in S : y <= x

\* rows once every row is padded with empty cells to col_count cells
PaddedRows(rows, col_count) ==
    [k \in 1..Len(rows) |-> rows[k] \o [i \in 1..(col_count - Len(rows[k])) |-> <<>>]]

\* widths: 3 or the longest cell of the column
ColumnWidths(rows, col_count) ==
    [idx \in 1..col_count |->
        Largest({3} \cup {Len(rows[k][idx]) : k \in 1..Len(rows)})]

\* for row in rows.iter().skip(1)
RECURSIVE TableRows(_, _, _, _)
TableRows(r, rows, widths, k) ==
    IF k > Len(rows) THEN r
    ELSE TableRows(flush_line(push_text(r, format_table_row(rows[k], widths),
                                        Style("Reset", {})),
                              FALSE),
                   rows, widths, k + 1)

\* render_table once the rows are padded and the widths known
TableLines(r, table, rows, widths) ==
    LET sep_cells == [idx \in 1..Len(widths) |->
                         SeparatorCell(IF idx <= Len(table.alignments)
                                       THEN table.alignments[idx] ELSE "None",
                                       widths[idx])]
        header == flush_line(push_text(r, format_table_row(rows[1], widths),
                                       Style("Yellow", {})),
                             FALSE)
    IN TableRows(flush_line(push_text(header, format_table_row(sep_cells, widths),
                                      Style("DarkGray", {})),
                            FALSE),
                 rows, widths, 2)

render_table(r, table) ==
    LET rows == (IF table.headers # <<>> THEN <<table.headers>> ELSE <<>>) \o table.rows
        col_count == IF rows = <<>> THEN 0
                     ELSE Largest({Len(rows[k]) : k \in 1..Len(rows)})
    IN IF rows = <<>> \/ col_count = 0 THEN r
       ELSE TableLines(r, table, PaddedRows(rows, col_count),
                       ColumnWidths(PaddedRows(rows, col_count), col_count))

\* the tags handled by the table that is open
TableEndTags == {"TableCell", "TableRow", "TableHead", "Table"}

\* the first match of handle_end, taken while a table is open
EndInTable(r, tag) ==
    LET table == r.table[1]
    IN CASE tag.tag = "TableCell" ->
               IF table.in_cell
               THEN [r EXCEPT !.table[1].current_row = Append(@, trim(table.current_cell)),
                              !.table[1].current_cell = <<>>,
                              !.table[1].in_cell = FALSE]
               ELSE r
         [] tag.tag = "TableRow" ->
               IF table.in_row
               THEN [r EXCEPT !.table[1].headers =
                                  IF table.in_head THEN table.current_row ELSE @,
                              !.table[1].rows =
                                  IF table.in_head THEN @ ELSE Append(@, table.current_row),
                              !.table[1].current_row = <<>>,
                              !.table[1].in_row = FALSE]
               ELSE r
         [] tag.tag = "TableHead" -> [r EXCEPT !.table[1].in_head = FALSE]
         [] tag.tag = "Table" -> blank_line(render_table([r EXCEPT !.table = None], table))

\* TagEnd::CodeBlock
EndCodeBlock(r, syntax_set) ==
    blank_line(render_code_block([r EXCEPT !.code_block_lang = None, !.code_block_buf = <<>>],
                                 syntax_set,
                                 IF r.code_block_lang = None THEN <<>>
                                 ELSE r.code_block_lang[1],
                                 r.code_block_buf))

handle_end(r, tag, syntax_set) ==
    IF r.table # None /\ tag.tag \in TableEndTags THEN EndInTable(r, tag)
    ELSE
    CASE tag.tag = "Paragraph" -> blank_line(flush_line(r, FALSE))
      [] tag.tag = "Heading" -> EndHeading(flush_line(r, FALSE), tag.level)
      [] tag.tag = "BlockQuote" ->
            blank_line([flush_line(r, FALSE) EXCEPT
                           !.blockquote_depth = saturating_sub(@, 1)])
      [] tag.tag = "CodeBlock" -> EndCodeBlock(r, syntax_set)
      [] tag.tag = "List" ->
            blank_line([flush_line(r, FALSE) EXCEPT
                           !.list_stack = SubSeq(@, 1, Len(@) - 1)])
      [] tag.tag = "Item" -> flush_line(r, FALSE)
      [] tag.tag = "Emphasis" -> [r EXCEPT !.inline.emphasis = saturating_sub(@, 1)]
      [] tag.tag = "Strong" -> [r EXCEPT !.inline.strong = saturating_sub(@, 1)]
      [] tag.tag = "Strikethrough" ->
            [r EXCEPT !.inline.strikethrough = saturating_sub(@, 1)]
      [] tag.tag = "Link" -> EndLink(r)
      [] tag.tag = "Image" -> EndImage(r)
      [] OTHER -> r

\* the text is appended to link.text when a link is active
LinkTextPushed(r, text) ==
    IF r.active_link = None THEN r
    ELSE [r EXCEPT !.active_link = Some([@[1] EXCEPT !.text = @ \o text])]

\* the text goes to the cell of the open table
InCell(r) == r.table # None /\ r.table[1].in_cell

add_text(r, text) ==
    IF r.code_block_lang # None THEN [r EXCEPT !.code_block_buf = @ \o text]
    ELSE IF InCell(r) THEN [r EXCEPT !.table[1].current_cell = @ \o text]
    ELSE IF r.active_image # None
    THEN [r EXCEPT !.active_image = Some([@[1] EXCEPT !.alt = @ \o text])]
    ELSE LinkTextPushed(push_styled_plain_text(push_prefix_if_needed(r), text), text)

soft_break(r) ==
    IF r.code_block_lang # None THEN [r EXCEPT !.code_block_buf = Append(@, "\n")]
    ELSE IF InCell(r) THEN [r EXCEPT !.table[1].current_cell = Append(@, " ")]
    ELSE LinkTextPushed(push_text(r, <<" ">>, InlineStyle(r.inline)), <<" ">>)

hard_break(r) ==
    IF r.code_block_lang # None THEN [r EXCEPT !.code_block_buf = Append(@, "\n")]
    ELSE flush_line(r, FALSE)

add_inline_code(r, code) ==
    IF r.code_block_lang # None THEN [r EXCEPT !.code_block_buf = @ \o code]
    ELSE IF InCell(r) THEN [r EXCEPT !.table[1].current_cell = @ \o code]
    ELSE LinkTextPushed(push_text(push_prefix_if_needed(r), code,
                                  Style("LightYellow", {"BOLD"})),
                        code)

\* the 64 characters U+2500 of a rule
RuleText == [i \in 1..64 |-> "U+2500"]

add_rule(r) ==
    blank_line(flush_line(push_text(flush_line(r, FALSE), RuleText, Style("DarkGray", {})),
                          FALSE))

add_task_marker(r, done) ==
    push_text(push_prefix_if_needed(r),
              IF done THEN <<"[", "x", "]", " ">> ELSE <<"[", " ", "]", " ">>,
              Style("DarkGray", {}))

\* Renderer::finish once the last line is flushed
Finished(r) ==
    [lines |-> IF r.lines = <<>> THEN << [segments |-> <<>>, plain |-> <<>>] >> ELSE r.lines,
     toc |-> r.toc, links |-> r.links]

finish(r) == Finished(flush_line(r, FALSE))

\* the match of render_markdown on one event; syntax_set is the syntax set and
\* theme the renderer borrows
render_event(r, event, syntax_set) ==
    CASE event.kind = "Start" -> handle_start(r, event)
      [] event.kind = "End" -> handle_end(r, event, syntax_set)
      [] event.kind \in {"Text", "Html", "InlineHtml"} -> add_text(r, event.text)
      [] event.kind = "Code" -> add_inline_code(r, event.text)
      [] event.kind = "FootnoteReference" ->
            add_text(r, <<"[", "^">> \o event.text \o <<"]">>)
      [] event.kind = "SoftBreak" -> soft_break(r)
      [] event.kind = "HardBreak" -> hard_break(r)
      [] event.kind = "Rule" -> add_rule(r)
      [] event.kind = "TaskListMarker" -> add_task_marker(r, event.done)
      [] OTHER -> r

\* the events of the parser: Event::Start(tag) and Event::End(tag) carry the
\* tag's level (headings), start (lists), alignments (tables) and text (the
\* destination of a link or an image, the language of a fenced code block)
Event(kind, tag, level, start, text, done) ==
    [kind |-> kind, tag |-> tag, level |-> level, start |-> start, text |-> text,
     done |-> done, alignments |-> <<>>]

\* the loop of render_markdown over the events the parser yields
RECURSIVE RenderAll(_, _, _)
RenderAll(r, events, syntax_set) ==
    IF events = <<>> THEN r
    ELSE RenderAll(render_event(r, events[1], syntax_set), Tail(events), syntax_set)

\* render_markdown on a text the parser turns into the given events
render_markdown(events, syntax_set) == finish(RenderAll(RendererNew, events, syntax_set))

(***************************************************************************)
(* Inputs: renderings the files can hold, frame heights, keys              *)
(***************************************************************************)
Line(text, style) == [segments |-> << [text |-> text, style |-> style] >>, plain |-> text]

TocEntry(level, title, line) == [level |-> level, title |-> title, line |-> line]

\* the events of a heading, a paragraph and a link around their inline events
HeadingOf(level, inline) ==
    << Event("Start", "Heading", level, None, <<>>, FALSE) >> \o inline
        \o << Event("End", "Heading", level, None, <<>>, FALSE) >>

ParagraphOf(inline) ==
    << Event("Start", "Paragraph", 0, None, <<>>, FALSE) >> \o inline
        \o << Event("End", "Paragraph", 0, None, <<>>, FALSE) >>

LinkOf(target, label) ==
    << Event("Start", "Link", 0, None, Chars(target), FALSE),
       Event("Text", "", 0, None, Chars(label), FALSE),
       Event("End", "Link", 0, None, <<>>, FALSE) >>

TextOf(text) == << Event("Text", "", 0, None, Chars(text), FALSE) >>

HardBreak == << Event("HardBreak", "", 0, None, <<>>, FALSE) >>

\* SyntaxSet::load_defaults_newlines() and the resolved theme: the documents
\* below hold no code block and ask nothing of them
Syntaxes == SyntaxSet({}, <<>>, <<>>)

\* "# n": a heading and the blank line after it
DocShort == render_markdown(HeadingOf(1, TextOf("n")), Syntaxes)

\* "#### [n](notes.txt)": the text of DocShort rendered differently, as a
\* demoted heading that is a link
DocShortRestyled == render_markdown(HeadingOf(4, LinkOf("notes.txt", "n")), Syntaxes)

\* "# n[o](other.md)[s](#s)" and "## n[w](http://e)": four lines, two
\* headings, three links
DocLong ==
    render_markdown(
        HeadingOf(1, TextOf("n") \o LinkOf("other.md", "o") \o LinkOf("#s", "s"))
        \o HeadingOf(2, TextOf("n") \o LinkOf("http://e", "w")),
        Syntaxes)

\* "# N" and "## nx": DocLong with both of its headings edited
DocLongEdited ==
    render_markdown(HeadingOf(1, TextOf("N")) \o HeadingOf(2, TextOf("nx")), Syntaxes)

\* "k\", "n\" and "n": one paragraph of three lines
DocOther ==
    render_markdown(ParagraphOf(TextOf("k") \o HardBreak \o TextOf("n") \o HardBreak
                                    \o TextOf("n")),
                    Syntaxes)

\* "k\", "g\", "n\" and "n"
DocOtherEdited ==
    render_markdown(ParagraphOf(TextOf("k") \o HardBreak \o TextOf("g") \o HardBreak
                                    \o TextOf("n") \o HardBreak \o TextOf("n")),
                    Syntaxes)

\* the files of the working directory /cwd, named as fs::canonicalize names them
Files == {"/cwd/main.md", "/cwd/other.md"}

\* the path made absolute against /cwd, its "." and ".." components resolved:
\* what fs::canonicalize returns for a path none of whose components is a
\* symbolic link
Absolute(path) ==
    Str(JoinComponents(Resolved(IF StartsWith(Chars(path), <<"/">>) THEN <<>>
                                ELSE << Chars("cwd") >>,
                                Components(Chars(path)))))

\* what render_markdown can return for the content of a file when it is read
FileContents(path) ==
    IF Absolute(path) = "/cwd/main.md"
    THEN {DocShort, DocShortRestyled, DocLong, DocLongEdited}
    ELSE IF Absolute(path) = "/cwd/other.md" THEN {DocOther, DocOtherEdited}
    ELSE {}

\* renderings of the input file when the program starts
InitialContents == {DocShort, DocLong}

\* fs::read_to_string followed by render_markdown: failure or a rendering
Reads(path) == {None} \cup {Some(d) : d \in FileContents(path)}

\* terminal heights of the frames drawn
FrameHeights == {3, 6}

\* characters typed while search mode is on
TypedChars == {"N"}

(***************************************************************************)
(* State                                                                   *)
(***************************************************************************)
VARIABLES
    app,    \* struct App
    pc,     \* position of run_interactive
    term,   \* the terminal: raw mode and alternate screen
    exit,   \* result of run_interactive once it returned
    call,   \* a function applied on its own: its arguments and result; None in
            \* the specifications of the interactive loop
    file    \* the watched file on disk: how many times it was modified since
            \* main() loaded it, and how many of these modifications the last
            \* fs::read_to_string of reload_current saw

vars == <<app, pc, term, exit, call, file>>

\* the file as main() loaded it
FileAsLoaded == [modified |-> 0, read |-> 0]

\* App::new(cli, load, rendered, ..)
AppNew(watch, history, path, rendered) ==
    [cli |-> [watch |-> watch, history |-> history],
     doc |-> [path |-> path, rendered |-> rendered],
     snapshots |-> << WatchSnapshot(1, rendered, SnapshotDiffDefault) >>,
     active_snapshot |-> 0,
     next_revision |-> 2,
     history_capacity |-> Max(history, 1),
     scroll |-> 0,
     viewport_height |-> 1,
     toc_open |-> FALSE,
     toc_selected |-> 0,
     timeline_open |-> FALSE,
     timeline_height |-> TIMELINE_DEFAULT_HEIGHT,
     selected_link |-> FirstLink(rendered),
     backstack |-> <<>>,
     search_mode |-> FALSE,
     search_query |-> <<>>,
     search_matches |-> <<>>,
     current_match |-> 0,
     status |-> <<>>,
     watcher |-> None,
     watch_requested |-> FALSE]

\* main(): --watch requires a file input; stdin input has no path
Init ==
    /\ \E history \in 1..MaxCapacity, rendered \in InitialContents,
          input \in {"file", "file+watch", "stdin"} :
          app = AppNew(input = "file+watch", history,
                       IF input = "stdin" THEN None ELSE Some("main.md"), rendered)
    /\ pc = "enter"
    /\ term = [raw |-> FALSE, alt |-> FALSE]
    /\ exit = "running" /\ file = FileAsLoaded
    /\ call = None

(***************************************************************************)
(* run_interactive                                                         *)
(***************************************************************************)
\* Drop for TerminalGuard: the results of disable_raw_mode() and of
\* LeaveAlternateScreen are discarded, and a call that fails leaves its part
\* of the terminal as it was
GuardDropped(t, raw_ok, alt_ok) ==
    [raw |-> IF raw_ok THEN FALSE ELSE t.raw, alt |-> IF alt_ok THEN FALSE ELSE t.alt]

\* the guard goes out of scope
DropGuard ==
    \E raw_ok \in BOOLEAN, alt_ok \in BOOLEAN : term' = GuardDropped(term, raw_ok, alt_ok)

\* an error propagated by `?` out of run_interactive once the guard exists;
\* exit records the error returned
FailWith(next, error) ==
    /\ app' = next
    /\ pc' = "done"
    /\ DropGuard
    /\ exit' = error
    /\ UNCHANGED <<call, file>>

\* an error of the terminal or of the watcher
Fail(next) == FailWith(next, "err")

\* TerminalGuard::enter
Enter ==
    /\ pc = "enter"
    /\ \E raw_ok \in BOOLEAN, alt_ok \in BOOLEAN :
          IF ~raw_ok
          THEN /\ pc' = "done" /\ exit' = "err" /\ UNCHANGED <<app, term, call, file>>
          ELSE IF ~alt_ok
          THEN /\ pc' = "done" /\ exit' = "err"
               /\ term' = [term EXCEPT !.raw = TRUE]
               /\ UNCHANGED <<app, call, file>>
          ELSE /\ pc' = "ensure_watcher"
               /\ term' = [raw |-> TRUE, alt |-> TRUE]
               /\ UNCHANGED <<app, exit, call, file>>

\* app.ensure_watcher()? before the loop
WatcherStarted(res) ==
    IF res.err THEN Fail(res.app)
    ELSE /\ app' = res.app
         /\ pc' = "terminal_new"
         /\ UNCHANGED <<term, exit, call, file>>

StartWatcher ==
    /\ pc = "ensure_watcher"
    /\ \E watch_ok \in BOOLEAN : WatcherStarted(ensure_watcher(app, watch_ok))

\* Terminal::new(backend)?
TerminalNew ==
    /\ pc = "terminal_new"
    /\ \E ok \in BOOLEAN :
          IF ok THEN pc' = "draw" /\ UNCHANGED <<app, term, exit, call, file>>
          ELSE Fail(app)

\* terminal.draw(|frame| app.draw(frame))?
Draw ==
    /\ pc = "draw"
    /\ \E height \in FrameHeights : /\ app' = draw(app, height)
                                    /\ pc' = "reload"
                                    /\ UNCHANGED <<term, exit, call, file>>

\* terminal.draw failing before the closure ran, or after it (the flush)
DrawError ==
    /\ pc = "draw"
    /\ \/ Fail(app)
       \/ \E height \in FrameHeights : Fail(draw(app, height))

\* format!("{err:#}") of the error reload_current returns: the context of the
\* failed read, or the error of the watcher
ReloadError(a, read) ==
    IF read = None THEN <<"Failed to reload", a.doc.path[1]>> ELSE <<"watcher">>

\* a reload that leaves the latch set
ReloadedKeepingLatch(res, read) ==
    app' = [res.app EXCEPT
               !.status = IF res.err THEN <<"Reload failed">> \o ReloadError(app, read) ELSE @]

\* if let Err(err) = app.reload_current() { status = "Reload failed: {err:#}" }
\* app.watch_requested = false
Reloaded(res, read) ==
    app' = [res.app EXCEPT
               !.status = IF res.err THEN <<"Reload failed">> \o ReloadError(app, read) ELSE @,
               !.watch_requested = FALSE]

\* if app.watch_requested { .. }, while next_revision is below the limit explored
ReloadUpTo(limit) ==
    /\ pc = "reload"
    /\ app.watch_requested
    /\ app.next_revision < limit
    /\ \E read \in Reads(IF app.doc.path = None THEN "" ELSE app.doc.path[1]),
          watch_ok \in BOOLEAN :
          Reloaded(reload_current(app, read, watch_ok), read)
    /\ pc' = "poll_watch"
    /\ UNCHANGED <<term, exit, call, file>>

LoopReload == ReloadUpTo(MaxRevision)

LoopNoReload ==
    /\ pc = "reload"
    /\ ~app.watch_requested
    /\ pc' = "poll_watch"
    /\ UNCHANGED <<app, term, exit, call, file>>

\* app.poll_watch()
PollWatch ==
    /\ pc = "poll_watch"
    /\ app' = poll_watch(app)
    /\ pc' = "poll_key"
    /\ UNCHANGED <<term, exit, call, file>>

\* event::poll(120 ms) timing out, or an event that is not a key press
NoKey ==
    /\ pc = "poll_key"
    /\ pc' = "draw"
    /\ UNCHANGED <<app, term, exit, call, file>>

\* event::poll(..)? or event::read()? failing
PollError ==
    /\ pc = "poll_key"
    /\ Fail(app)

\* the file the key would read: the path the selected link resolves to when
\* Enter opens a markdown file, the top of the backstack for Backspace
FileReadBy(key) ==
    IF KeyCodeOf(key) = "Backspace"
    THEN IF app.backstack = <<>> THEN "" ELSE app.backstack[Len(app.backstack)].path
    ELSE IF KeyCodeOf(key) # "Enter" \/ selected_link_line(app) = None THEN ""
    ELSE IF classify_link(app.doc.rendered.links[app.selected_link[1] + 1].target,
                          app.doc.path, FALSE).kind # "InternalMarkdown"
    THEN ""
    ELSE classify_link(app.doc.rendered.links[app.selected_link[1] + 1].target,
                       app.doc.path, FALSE).arg

\* what the environment can answer to the calls a key handler makes: read is
\* fs::read_to_string and render_markdown, canonical is fs::canonicalize
Envs(key) ==
    IF KeyCodeOf(key) \in {"Enter", "o", "Backspace"}
    THEN [read : {None} \cup {Some(d) : d \in UNION {FileContents(f) : f \in Files}},
          open_ok : BOOLEAN, watch_ok : BOOLEAN, exists : BOOLEAN,
          canonical : {None} \cup {Some(f) : f \in Files}]
    ELSE {[read |-> None, open_ok |-> TRUE, watch_ok |-> TRUE, exists |-> TRUE,
           canonical |-> None]}

\* the answers of a working directory /cwd without symbolic links, whose files
\* may be unreadable or missing at any call: fs::canonicalize fails or returns
\* the absolute path of the path asked, and the read returns a content of the
\* file named.  Only the calls the handler makes are answered in more than
\* one way: a link to a markdown file is canonicalized, read and watched, any
\* other link is looked up and handed to the opener, a back-pop reads and
\* watches
DirEnvs(key) ==
    IF KeyCodeOf(key) = "Backspace" \/ (KeyCodeOf(key) = "Enter" /\ FileReadBy(key) # "")
    THEN [read : Reads(FileReadBy(key)),
          open_ok : {TRUE}, watch_ok : BOOLEAN, exists : {TRUE},
          canonical : IF KeyCodeOf(key) = "Enter" /\ Absolute(FileReadBy(key)) \in Files
                      THEN {None, Some(Absolute(FileReadBy(key)))}
                      ELSE {None}]
    ELSE IF KeyCodeOf(key) \in {"Enter", "o"}
    THEN [read : {None}, open_ok : BOOLEAN, watch_ok : {TRUE}, exists : BOOLEAN,
          canonical : {None}]
    ELSE Envs(key)

\* if app.handle_key(key)? { break; }
Dispatched(res) ==
    IF res.err THEN FailWith(res.app, "err of handle_key")
    ELSE IF res.quit
    THEN /\ app' = res.app
         /\ pc' = "done"
         /\ DropGuard
         /\ exit' = "ok"
         /\ UNCHANGED <<call, file>>
    ELSE /\ app' = res.app
         /\ pc' = "draw"
         /\ UNCHANGED <<term, exit, call, file>>

\* CEvent::Key(key) with KeyEventKind::Press
Dispatch(key) ==
    /\ pc = "poll_key"
    /\ \E env \in DirEnvs(key) : Dispatched(handle_key(app, key, env))

Press(key) == ~app.search_mode /\ Dispatch(key)

KeyQuit == Press("q")
KeyTimeline == Press("v")
KeyRevisionBack == \E key \in {"h", "Left"} : Press(key)
KeyRevisionForward == \E key \in {"l", "Right"} : Press(key)
KeyJumpToLive == Press("L")
KeyHunkBack == Press("(")
KeyHunkForward == Press(")")
KeyDown == \E key \in {"j", "Down"} : Press(key)
KeyUp == \E key \in {"k", "Up"} : Press(key)
KeyTop == Press("g")
KeyBottom == Press("G")
KeyHalfDown == Press("C-d")
KeyHalfUp == Press("C-u")
KeyToc == Press("t")
KeyTab == Press("Tab")
KeyBackTab == Press("BackTab")
EnterUpTo(limit) ==
    /\ app.toc_open \/ app.next_revision < limit
    /\ app.toc_open \/ Len(app.backstack) < MaxBackstack
    /\ Press("Enter")
KeyEnter == EnterUpTo(MaxRevision)
KeyOpenExternal == Press("o")
KeyHeadingForward == Press("]")
KeyHeadingBack == Press("[")
BackUpTo(limit) ==
    /\ app.next_revision < limit
    /\ Press("Backspace")
KeyBack == BackUpTo(MaxRevision)
KeySearch == Press("/")
KeyNextMatch == Press("n")
KeyPrevMatch == Press("N")
KeyUnbound == Press("x")

\* keys while search mode is on
SearchClose == app.search_mode /\ \E key \in {"Esc", "Enter"} : Dispatch(key)
SearchBackspace == app.search_mode /\ Dispatch("Backspace")
SearchTypeFrom(chars) ==
    /\ app.search_mode
    /\ Len(app.search_query) < MaxQuery
    /\ \E key \in chars : Dispatch(key)
SearchType == SearchTypeFrom(TypedChars)
SearchIgnored == app.search_mode /\ \E key \in {"Tab", "C-d"} : Dispatch(key)

\* the filesystem watcher's callback: tx.send(res).  The channel is read only
\* by poll_watch, so an event is placed where it is next read
WatchEvent ==
    /\ pc = "poll_watch"
    /\ app.watcher # None
    /\ Len(app.watcher[1].rx) < MaxInbox
    /\ \E res \in {"Ok", "Err"} :
          app' = [app EXCEPT !.watcher = Some([rx |-> Append(app.watcher[1].rx, res)])]
    /\ UNCHANGED <<pc, term, exit, call, file>>

\* steps of run_interactive other than key dispatch
LoopStep ==
    \/ Enter \/ StartWatcher \/ TerminalNew
    \/ Draw \/ DrawError \/ LoopNoReload \/ PollWatch
    \/ NoKey \/ PollError \/ WatchEvent

(***************************************************************************)
(* Spec: the snapshot store under reloads, revision navigation, link       *)
(* opening and back-pops, for every --history up to MaxCapacity            *)
(***************************************************************************)
Next ==
    \/ LoopStep \/ LoopReload
    \/ KeyQuit \/ KeyRevisionBack \/ KeyRevisionForward \/ KeyJumpToLive
    \/ KeyDown \/ KeyUp \/ KeyEnter \/ KeyBack

Spec == Init /\ [][Next]_vars

(***************************************************************************)
(* SpecNav: every key binding, --watch on a file, --history NavCapacity    *)
(***************************************************************************)
InitNav ==
    /\ app = AppNew(TRUE, NavCapacity, Some("main.md"), DocLong)
    /\ pc = "enter"
    /\ term = [raw |-> FALSE, alt |-> FALSE]
    /\ exit = "running" /\ file = FileAsLoaded
    /\ call = None

NavReload == ReloadUpTo(MaxNavRevision)
NavEnter == EnterUpTo(MaxNavRevision)
NavBack == BackUpTo(MaxNavRevision)

NextNav ==
    \/ LoopStep \/ NavReload
    \/ KeyQuit \/ KeyTimeline \/ KeyRevisionBack \/ KeyRevisionForward \/ KeyJumpToLive
    \/ KeyHunkBack \/ KeyHunkForward \/ KeyDown \/ KeyUp \/ KeyTop \/ KeyBottom
    \/ KeyHalfDown \/ KeyHalfUp \/ KeyToc \/ KeyTab \/ KeyBackTab \/ NavEnter
    \/ KeyOpenExternal \/ KeyHeadingForward \/ KeyHeadingBack \/ NavBack
    \/ KeySearch \/ KeyNextMatch \/ KeyPrevMatch \/ KeyUnbound
    \/ SearchClose \/ SearchBackspace \/ SearchType \/ SearchIgnored

SpecNav == InitNav /\ [][NextNav]_vars

(***************************************************************************)
(* SpecModes: the revision keys and the timeline toggle with and without   *)
(* --watch, for every input and every --history up to MaxCapacity          *)
(***************************************************************************)
NextModes ==
    \/ LoopStep \/ LoopReload
    \/ KeyQuit \/ KeyTimeline \/ KeyRevisionBack \/ KeyRevisionForward \/ KeyJumpToLive

SpecModes == Init /\ [][NextModes]_vars

(***************************************************************************)
(* SpecWatch: the reload latch, --watch on a file, with up to MaxWatchInbox *)
(* watcher events between two drains; the loop always takes its next step  *)
(***************************************************************************)
\* the watcher's callback while the file still changes: the environment stops
\* posting once next_revision has reached the limit explored
WatchPost ==
    /\ pc = "poll_watch"
    /\ app.watcher # None
    /\ Len(app.watcher[1].rx) < MaxWatchInbox
    /\ app.next_revision < MaxWatchRevision
    /\ \E res \in {"Ok", "Err"} :
          app' = [app EXCEPT !.watcher = Some([rx |-> Append(app.watcher[1].rx, res)])]
    /\ UNCHANGED <<pc, term, exit, call, file>>

WatchReload == ReloadUpTo(MaxWatchRevision)

\* the steps of the program: every call of the loop body returns, and
\* event::poll returns after 120 ms at the latest
LoopProgress ==
    \/ Enter \/ StartWatcher \/ TerminalNew
    \/ Draw \/ DrawError \/ WatchReload \/ LoopNoReload \/ PollWatch
    \/ NoKey \/ PollError \/ KeyQuit \/ KeyDown \/ KeyJumpToLive

NextWatch == LoopProgress \/ WatchPost

InitWatch ==
    /\ \E rendered \in InitialContents :
          app = AppNew(TRUE, NavCapacity, Some("main.md"), rendered)
    /\ pc = "enter"
    /\ term = [raw |-> FALSE, alt |-> FALSE]
    /\ exit = "running" /\ file = FileAsLoaded
    /\ call = None

SpecWatch == InitWatch /\ [][NextWatch]_vars /\ WF_vars(LoopProgress)

(***************************************************************************)
(* SpecRace: --watch on a file that another process modifies at any point  *)
(* of the loop; reload_current is split at its fs::read_to_string, the     *)
(* only point where the file is observed. No key is pressed and the        *)
(* terminal does not fail, so the loop runs on                             *)
(***************************************************************************)
LoopPositions == {"draw", "reload", "reload_read", "poll_watch", "poll_key"}

\* the rendering of the file after `version` modifications: each modification
\* changes the text
FileAfter(version) == IF version % 2 = 0 THEN DocLong ELSE DocLongEdited

\* another process writes the file; the callback of the watcher registered at
\* that moment sends Ok into its channel
FileModified ==
    /\ pc \in LoopPositions
    /\ app.watcher # None
    /\ file.modified < MaxModifications
    /\ file' = [file EXCEPT !.modified = @ + 1]
    /\ app' = [app EXCEPT !.watcher = Some([rx |-> Append(app.watcher[1].rx, "Ok")])]
    /\ UNCHANGED <<pc, term, exit, call>>

\* if app.watch_requested { reload_current(): fs::read_to_string(&path) .. }
RaceRead ==
    /\ pc = "reload"
    /\ app.watch_requested
    /\ file' = [file EXCEPT !.read = file.modified]
    /\ pc' = "reload_read"
    /\ UNCHANGED <<app, term, exit, call>>

\* the rest of reload_current: the result of the read (an error, or the text
\* the file had when it was read), render_markdown, push_watch_snapshot, the
\* status, ensure_watcher; then app.watch_requested = false
RaceReloaded ==
    /\ pc = "reload_read"
    /\ \E read \in {None, Some(FileAfter(file.read))}, watch_ok \in BOOLEAN :
          Reloaded(reload_current(app, read, watch_ok), read)
    /\ pc' = "poll_watch"
    /\ UNCHANGED <<term, exit, call, file>>

\* the steps of the program: every call of the loop body returns, and
\* event::poll returns after 120 ms at the latest
RaceProgress ==
    \/ Enter \/ StartWatcher \/ TerminalNew
    \/ Draw \/ RaceRead \/ RaceReloaded \/ LoopNoReload \/ PollWatch \/ NoKey

NextRace == RaceProgress \/ FileModified

SpecRace == InitNav /\ [][NextRace]_vars /\ WF_vars(RaceProgress)

\* the same loop when no modification falls between the read of a reload and
\* the end of that reload
FileModifiedOutsideReload == FileModified /\ pc # "reload_read"

SpecRaceOutsideReload ==
    InitNav /\ [][RaceProgress \/ FileModifiedOutsideReload]_vars /\ WF_vars(RaceProgress)

(***************************************************************************)
(* SpecSync: reloads and revision navigation with a search query, --watch  *)
(* on a file, --history NavCapacity, so that the third snapshot evicts     *)
(***************************************************************************)
\* "N" matches a line of every rendering, "x" only a line of DocLongEdited
SyncTypedChars == {"N", "x"}

SyncReload == ReloadUpTo(MaxSyncRevision)
SyncSearchType == SearchTypeFrom(SyncTypedChars)

NextSync ==
    \/ LoopStep \/ SyncReload
    \/ KeyRevisionBack \/ KeyRevisionForward \/ KeyJumpToLive
    \/ KeyBottom \/ KeySearch \/ KeyNextMatch
    \/ SearchClose \/ SyncSearchType

InitSync ==
    /\ \E rendered \in InitialContents :
          app = AppNew(TRUE, NavCapacity, Some("main.md"), rendered)
    /\ pc = "enter"
    /\ term = [raw |-> FALSE, alt |-> FALSE]
    /\ exit = "running" /\ file = FileAsLoaded
    /\ call = None

SpecSync == InitSync /\ [][NextSync]_vars

(***************************************************************************)
(* SpecSearch: a search query kept across link opens, back-pops, reloads   *)
(* and revision changes, --watch on a file, --history NavCapacity          *)
(***************************************************************************)
SearchReload == ReloadUpTo(MaxSearchRevision)
SearchEnter == EnterUpTo(MaxSearchRevision)
SearchBack == BackUpTo(MaxSearchRevision)

NextSearch ==
    \/ LoopStep \/ SearchReload
    \/ KeySearch \/ KeyNextMatch \/ SearchClose \/ SearchBackspace \/ SyncSearchType
    \/ SearchEnter \/ SearchBack \/ KeyRevisionBack \/ KeyRevisionForward

SpecSearch == InitSync /\ [][NextSearch]_vars

(***************************************************************************)
(* SpecDiff: the diff engine applied on its own to every pair of line      *)
(* sequences up to MaxDiffLen, every pair of documents up to MaxDocLen     *)
(* lines with every placement of headings, and every hunk and TOC          *)
(***************************************************************************)
\* lines are compared for equality only: three distinct texts
DiffAlphabet == {"a", "b", "c"}

LineSeqs(alphabet, len) == UNION {[1..n -> alphabet] : n \in 0..len}

\* max_cells: below every table, the table of 1x1 and of 1x2 changed regions
\* exactly, and the program's limit
CellLimits == {1, 4, 6, DIFF_MAX_CELLS}

\* the elements of a set of numbers in increasing order
RECURSIVE Ascending(_)
Ascending(S) ==
    IF S = {} THEN <<>>
    ELSE <<CHOOSE x \in S : \A y \in S : x <= y>>
            \o Ascending(S \ {CHOOSE x \in S : \A y \in S : x <= y})

\* a TOC with one heading on each of the given lines, titled by its line
TocOnLines(heading_lines) ==
    [k \in 1..Len(heading_lines) |->
        TocEntry(1, <<"#", <<"0", "1", "2", "3", "4", "5">>[heading_lines[k] + 1]>>,
                 heading_lines[k])]

\* every TOC a document of total_lines lines can have
Tocs(total_lines) == {TocOnLines(Ascending(S)) : S \in SUBSET (0..(total_lines - 1))}

DocOfLines(texts, toc) ==
    [lines |-> [i \in 1..Len(texts) |-> Line(<<texts[i]>>, Style("Reset", {}))],
     toc |-> toc, links |-> <<>>]

DiffCalls ==
    [fn : {"compute_line_diff"}, old_lines : LineSeqs(DiffAlphabet, MaxDiffLen),
     new_lines : LineSeqs(DiffAlphabet, MaxDiffLen), max_cells : CellLimits,
     result : {None}]

SnapshotDiffCalls ==
    UNION {{[fn |-> "build_snapshot_diff", previous |-> DocOfLines(old, old_toc),
             next |-> DocOfLines(new, toc), result |-> None] :
                old_toc \in Tocs(Len(old)), toc \in Tocs(Len(new))} :
           old \in LineSeqs({"a", "b"}, MaxDocLen), new \in LineSeqs({"a", "b"}, MaxDocLen)}

\* the hunks compute_line_diff can return against a document of total_lines lines
HunkCalls ==
    UNION {{[fn |-> "touched_toc_indices_for_hunk",
             hunk |-> DiffHunk(start, end, end - start, removed),
             toc |-> toc, total_lines |-> total_lines, result |-> None] :
                start \in 0..total_lines, end \in 0..total_lines,
                removed \in 0..1, toc \in Tocs(total_lines)} :
           total_lines \in 0..MaxDocLen}

ApplyComputeLineDiff ==
    /\ call.fn = "compute_line_diff" /\ call.result = None
    /\ call' = [call EXCEPT !.result =
                    Some(compute_line_diff(call.old_lines, call.new_lines, call.max_cells))]
    /\ UNCHANGED <<app, pc, term, exit, file>>

ApplyBuildSnapshotDiff ==
    /\ call.fn = "build_snapshot_diff" /\ call.result = None
    /\ call' = [call EXCEPT !.result = Some(build_snapshot_diff(call.previous, call.next))]
    /\ UNCHANGED <<app, pc, term, exit, file>>

ApplyTouchedTocIndices ==
    /\ call.fn = "touched_toc_indices_for_hunk" /\ call.result = None
    /\ call' = [call EXCEPT !.result =
                    Some(touched_toc_indices_for_hunk(call.hunk, call.toc, call.total_lines))]
    /\ UNCHANGED <<app, pc, term, exit, file>>

NextDiff == ApplyComputeLineDiff \/ ApplyBuildSnapshotDiff \/ ApplyTouchedTocIndices

InitDiff ==
    /\ \/ call \in DiffCalls
       \/ call \in SnapshotDiffCalls
       \/ call \in {c \in HunkCalls : /\ c.hunk.start_line <= c.hunk.end_line
                                      /\ c.hunk.added + c.hunk.removed > 0}
    /\ app = None /\ pc = "call" /\ term = [raw |-> FALSE, alt |-> FALSE] /\ exit = "running" /\ file = FileAsLoaded

SpecDiff == InitDiff /\ [][NextDiff]_vars

(***************************************************************************)
(* SpecRender: render_markdown on every well-nested sequence of up to      *)
(* MaxEvents parser events: paragraphs, headings, block quotes, lists,     *)
(* rules, indented and fenced code blocks, text, inline code, breaks, task markers,   *)
(* strong emphasis, links, images and, outside any other block, a table of *)
(* one header cell                                                         *)
(***************************************************************************)
Plain(kind) == Event(kind, "", 0, None, <<>>, FALSE)
Start(tag) == Event("Start", tag, 0, None, <<>>, FALSE)
End(tag, level) == Event("End", tag, level, None, <<>>, FALSE)

\* the language of a fence, "rs"
FenceLanguage == <<"r", "s">>

\* the colours of a theme
ThemeColours ==
    << [foreground |-> "Rgb(192,197,206)", background |-> "Rgb(43,48,59)"],
       [foreground |-> "Rgb(180,142,173)", background |-> "Rgb(43,48,59)"] >>

\* the ways to cut a text into tokens that together spell it
RECURSIVE Cuts(_)
Cuts(text) ==
    IF text = <<>> THEN {<<>>}
    ELSE UNION {{<<SubSeq(text, 1, k)>> \o rest :
                    rest \in Cuts(SubSeq(text, k + 1, Len(text)))} : k \in 1..Len(text)}

\* the tokens of a cut, coloured in turn with the colours of the theme
Coloured(cut) ==
    [i \in 1..Len(cut) |->
        [style |-> ThemeColours[((i - 1) % Len(ThemeColours)) + 1], token |-> cut[i]]]

\* what the highlighter can answer to a line of a code block: an error, no
\* token, or the line cut into tokens in any way
AnswersTo(line) ==
    {HighlightError, Highlighted(<<>>)} \cup {Highlighted(Coloured(cut)) : cut \in Cuts(line)}

\* the text of a code block: two lines, the last without its line feed
CodeText == <<"t", "u", "\n", "v">>

\* every answer to each of the two lines of the block
BlockAnswers ==
    {<<first, second>> : first \in AnswersTo(LinesWithEndings(CodeText)[1]),
                         second \in AnswersTo(LinesWithEndings(CodeText)[2])}

\* the syntax sets a block can be highlighted with: one that knows no language
\* and gives any answers under the plain-text syntax, one that knows the
\* language of the fence and gives any answers under its syntax
SyntaxSets ==
    {SyntaxSet({}, answers, <<>>) : answers \in BlockAnswers}
    \cup {SyntaxSet({FenceLanguage}, <<>>, answers) : answers \in BlockAnswers}

\* the syntax sets that matter to an event: all of them when a code block
\* ends, one otherwise
SyntaxSetsOf(event) ==
    IF event.kind = "End" /\ event.tag = "CodeBlock" THEN SyntaxSets ELSE {Syntaxes}

\* the events that open a block
BlockStarts ==
    {Start("Paragraph"), Start("BlockQuote"), Start("CodeBlock"), Plain("Rule")}
    \cup {Event("Start", "CodeBlock", 0, None, FenceLanguage, FALSE)}
    \cup {Event("Start", "Heading", level, None, <<>>, FALSE) : level \in {1, 4}}
    \cup {Event("Start", "List", 0, start, <<>>, FALSE) : start \in {None, Some(1)}}

\* a table of one column opens
StartTable == [Start("Table") EXCEPT !.alignments = <<"None">>]

\* the events of inline content; a link does not open inside a link
InlineEvents(open, last) ==
    {Event("Text", "", 0, None, <<"t">>, FALSE), Event("Code", "", 0, None, <<"c">>, FALSE)}
    \cup (IF last[1] \in {"Text", "Code"}
              \/ last \in {<<"End", "Link">>, <<"End", "Image">>, <<"End", "Strong">>}
          THEN {Plain("SoftBreak"), Plain("HardBreak")} ELSE {})
    \cup (IF \E i \in 1..Len(open) : open[i].tag \in {"Link", "Image"} THEN {}
          ELSE {Event("Start", "Link", 0, None, <<"x">>, FALSE),
                Event("Start", "Image", 0, None, <<"y">>, FALSE)})
    \cup (IF \E i \in 1..Len(open) : open[i].tag = "Strong" THEN {} ELSE {Start("Strong")})

InlineKinds == {<<"Text", "">>, <<"Code", "">>, <<"SoftBreak", "">>, <<"HardBreak", "">>,
                <<"TaskListMarker", "">>, <<"End", "Link">>, <<"End", "Image">>,
                <<"End", "Strong">>}

Breaks == {<<"SoftBreak", "">>, <<"HardBreak", "">>}

\* the events a parser can produce next, given the open tags and the last event
ParserEvents(open, last) ==
    LET top == IF open = <<>> THEN "Document" ELSE open[Len(open)].tag
        closing == IF open = <<>> THEN {} ELSE {End(top, open[Len(open)].level)}
    IN CASE top = "Document" -> BlockStarts \cup {StartTable}
         [] top = "BlockQuote" -> BlockStarts \cup closing
         [] top = "Table" ->
                IF last = <<"Start", "Table">> THEN {Start("TableHead")} ELSE closing
         [] top = "TableHead" ->
                IF last = <<"Start", "TableHead">> THEN {Start("TableCell")} ELSE closing
         [] top = "TableCell" ->
                IF last = <<"Start", "TableCell">>
                THEN {Event("Text", "", 0, None, <<"t">>, FALSE)} \cup closing
                ELSE closing
         [] top = "List" ->
                {Start("Item")} \cup (IF last = <<"End", "Item">> THEN closing ELSE {})
         [] top = "Item" ->
                IF last = <<"Start", "Item">>
                THEN BlockStarts \cup InlineEvents(open, last) \cup closing
                         \cup {Event("TaskListMarker", "", 0, None, <<>>, done) :
                                  done \in BOOLEAN}
                ELSE IF last \in InlineKinds
                THEN InlineEvents(open, last)
                         \cup {Event("Start", "List", 0, None, <<>>, FALSE)}
                         \cup (IF last \in Breaks THEN {} ELSE closing)
                ELSE BlockStarts \cup closing
         [] top = "Paragraph" ->
                InlineEvents(open, last)
                    \cup (IF last \in Breaks \cup {<<"Start", "Paragraph">>} THEN {} ELSE closing)
         [] top = "Heading" ->
                InlineEvents(open, last) \cup (IF last \in Breaks THEN {} ELSE closing)
         [] top \in {"Link", "Strong"} ->
                InlineEvents(open, last)
                    \cup (IF last = <<"Start", "Strong">> THEN {} ELSE closing)
         [] top = "CodeBlock" ->
                IF last = <<"Start", "CodeBlock">>
                THEN {Event("Text", "", 0, None, CodeText, FALSE)} \cup closing
                ELSE closing
         [] OTHER -> {Event("Text", "", 0, None, <<"t">>, FALSE)} \cup closing

\* the open tags after the event
OpenAfter(open, event) ==
    IF event.kind = "Start" THEN Append(open, event)
    ELSE IF event.kind = "End" THEN SubSeq(open, 1, Len(open) - 1)
    ELSE open

\* one turn of the loop of render_markdown
RenderEvent ==
    /\ call.fn = "render_markdown" /\ call.result = None
    /\ call.events < MaxEvents
    /\ \E event \in ParserEvents(call.open, call.last) :
       \E syntax_set \in SyntaxSetsOf(event) :
          /\ event.kind = "Start" => Len(call.open) < MaxOpen
          /\ call' = [call EXCEPT !.renderer = render_event(@, event, syntax_set),
                                  !.open = OpenAfter(@, event),
                                  !.last = <<event.kind, event.tag>>,
                                  !.events = @ + 1]
    /\ UNCHANGED <<app, pc, term, exit, file>>

\* the parser is exhausted: renderer.finish()
RenderFinish ==
    /\ call.fn = "render_markdown" /\ call.result = None
    /\ call.open = <<>>
    /\ call' = [call EXCEPT !.result = Some(finish(call.renderer))]
    /\ UNCHANGED <<app, pc, term, exit, file>>

NextRender == RenderEvent \/ RenderFinish

InitRender ==
    /\ call = [fn |-> "render_markdown", renderer |-> RendererNew, open |-> <<>>,
               last |-> <<"", "">>, events |-> 0, result |-> None]
    /\ app = None /\ pc = "call" /\ term = [raw |-> FALSE, alt |-> FALSE] /\ exit = "running" /\ file = FileAsLoaded

SpecRender == InitRender /\ [][NextRender]_vars

(***************************************************************************)
(* Freshness of a snapshot and the content pane                            *)
(***************************************************************************)
\* created_instant.elapsed() is the monotonic clock read now minus the instant
change_freshness(created_instant, now) ==
    LET age == now - created_instant
    IN IF age <= BRIGHT_CHANGE_WINDOW THEN Some("Bright")
       ELSE IF age <= DIM_CHANGE_WINDOW THEN Some("Dim")
       ELSE None

\* hunk_anchors[anchor] = true for every hunk
hunk_anchors(hunks, total_lines) ==
    IF total_lines = 0 THEN {}
    ELSE {hunk_anchor_line(hunks[i], total_lines) : i \in 1..Len(hunks)}

\* changed_lines[line] = true, only while the snapshot has a freshness
changed_lines(hunks, total_lines, freshness) ==
    IF total_lines = 0 \/ freshness = None THEN {}
    ELSE UNION {IF hunks[i].end_line > hunks[i].start_line
                THEN {line \in 0..(total_lines - 1) :
                         /\ Min(hunks[i].start_line, total_lines) <= line
                         /\ line < Min(hunks[i].end_line, total_lines)}
                ELSE {hunk_anchor_line(hunks[i], total_lines)} : i \in 1..Len(hunks)}

\* the gutter of a line: the bar on hunk anchors, coloured by freshness
marker_span(freshness, is_hunk_anchor) ==
    IF ~is_hunk_anchor THEN [text |-> "  ", style |-> Style("", {})]
    ELSE [text |-> "| ",
          style |-> IF freshness = Some("Bright") THEN Style("LightRed", {"BOLD"})
                    ELSE IF freshness = Some("Dim") THEN Style("Gray", {})
                    ELSE Style("LightBlue", {})]

\* if is_changed { style = match freshness { .. } }
changed_background(bg, freshness, is_changed) ==
    IF ~is_changed THEN bg
    ELSE IF freshness = Some("Bright") THEN "Rgb(70,35,0)"
    ELSE IF freshness = Some("Dim") THEN "Rgb(36,36,36)"
    ELSE bg

\* the style of a segment: [bg, fg] after the changed, match and link steps
segment_style(segment, freshness, is_changed, is_match, is_selected_link_line) ==
    LET changed == changed_background(segment.bg, freshness, is_changed)
        matched == IF is_match THEN "Rgb(40,40,40)" ELSE changed
    IN IF is_selected_link_line THEN [bg |-> "Blue", fg |-> "White"]
       ELSE [bg |-> matched, fg |-> segment.fg]

\* Span::raw(""): the empty span of the default style that stands for the
\* segments of a blank line
RawSpan == [bg |-> "", fg |-> ""]

\* the lines App::draw_content gives to the Paragraph: a marker span, then the
\* styled segments, or the empty span when the line has none.  c holds what the function reads: the clock, the current
\* snapshot's instant and hunks, the lines, the matches, the selected link's line
draw_content(c) ==
    LET total_lines == Len(c.lines)
        freshness == change_freshness(c.created_instant, c.now)
        changed == changed_lines(c.hunks, total_lines, freshness)
        anchors == hunk_anchors(c.hunks, total_lines)
    IN [n \in 1..total_lines |->
           [marker |-> marker_span(freshness, (n - 1) \in anchors),
            spans |-> IF c.lines[n] = <<>> THEN <<RawSpan>>
                      ELSE [k \in 1..Len(c.lines[n]) |->
                               segment_style(c.lines[n][k], freshness, (n - 1) \in changed,
                                             (n - 1) \in c.search_matches,
                                             c.selected_link_line = Some(n - 1))]]]

(***************************************************************************)
(* SpecFresh: one snapshot drawn again and again while the clock advances  *)
(***************************************************************************)
\* a segment as the renderer leaves it: no background
PlainSegment == [bg |-> "", fg |-> ""]

\* lines of no or one segment
DrawnLines == UNION {[1..n -> {<<>>, <<PlainSegment>>}] : n \in 0..MaxDrawnLines}

\* no hunk, or one hunk of the snapshot's diff
DrawnHunks(total_lines) ==
    {<<>>} \cup {<<DiffHunk(start, end, end - start, 1)>> :
                    start \in 0..total_lines, end \in 0..total_lines}

\* a blank line holds no match of a query, and can be the line of a link
FreshCalls ==
    UNION {[fn : {"draw_content"}, created_instant : {0, ClockStep}, now : {ClockStep},
            lines : {lines}, hunks : {h \in DrawnHunks(Len(lines)) :
                                        h = <<>> \/ h[1].start_line <= h[1].end_line},
            search_matches : SUBSET {n \in 0..(Len(lines) - 1) : lines[n + 1] # <<>>},
            selected_link_line : {None} \cup {Some(n) : n \in 0..(Len(lines) - 1)},
            result : {None}] : lines \in DrawnLines}

\* the clock moves on between two frames
ClockAdvance ==
    /\ call.fn = "draw_content"
    /\ call.now + ClockStep <= call.created_instant + MaxClock
    /\ call' = [call EXCEPT !.now = @ + ClockStep]
    /\ UNCHANGED <<app, pc, term, exit, file>>

\* terminal.draw(..): the frame replaces the one on the screen
ApplyDrawContent ==
    /\ call.fn = "draw_content"
    /\ call' = [call EXCEPT !.result = Some(draw_content(call))]
    /\ UNCHANGED <<app, pc, term, exit, file>>

NextFresh == ClockAdvance \/ ApplyDrawContent

InitFresh ==
    /\ call \in FreshCalls
    /\ app = None /\ pc = "call" /\ term = [raw |-> FALSE, alt |-> FALSE] /\ exit = "running" /\ file = FileAsLoaded

SpecFresh == InitFresh /\ [][NextFresh]_vars

(***************************************************************************)
(* SpecLayout: one frame drawn, for every terminal height up to            *)
(* MaxFrameHeight, with and without --watch, timeline and TOC              *)
(***************************************************************************)
\* App values before the frame: the timeline opens in watch mode only
LayoutApps ==
    {[AppNew(mode[1], 1, Some("main.md"), rendered) EXCEPT
         !.timeline_open = mode[2], !.toc_open = toc_open] :
        mode \in {m \in BOOLEAN \X BOOLEAN : m[2] => m[1]},
        toc_open \in BOOLEAN, rendered \in InitialContents}

\* terminal.draw(|frame| app.draw(frame)) on a terminal of call.height rows
ApplyDraw ==
    /\ call.fn = "draw" /\ call.result = None
    /\ call' = [call EXCEPT !.result = Some([layout |-> DrawLayout(call.app, call.height),
                                             app |-> draw(call.app, call.height)])]
    /\ UNCHANGED <<app, pc, term, exit, file>>

NextLayout == ApplyDraw

InitLayout ==
    /\ call \in [fn : {"draw"}, app : LayoutApps, height : MinFrameHeight..MaxFrameHeight,
                 result : {None}]
    /\ app = None /\ pc = "call" /\ term = [raw |-> FALSE, alt |-> FALSE] /\ exit = "running" /\ file = FileAsLoaded

SpecLayout == InitLayout /\ [][NextLayout]_vars

(***************************************************************************)
(* Vocabulary of the properties                                            *)
(***************************************************************************)
\* the status line starts with the given words and has the given number of parts
StatusIs(a, head, parts) == Len(a.status) = parts /\ a.status[1] = head

Revisions(a) == [i \in 1..Len(a.snapshots) |-> a.snapshots[i].revision]

\* a step of the loop that ran reload_current
ReloadStep == pc = "reload" /\ app.watch_requested /\ pc' = "poll_watch"

\* a reload whose push_watch_snapshot stored a new snapshot
AcceptedAppend == ReloadStep /\ app'.next_revision = app.next_revision + 1

\* a key dispatch that ran set_doc (link open or back-pop): only it allocates a
\* revision while a key is handled
ResetStep == pc = "poll_key" /\ app'.next_revision = app.next_revision + 1

LiveMode(a) == a.active_snapshot = Len(a.snapshots) - 1

\* snapshots an accepted append pops from the front
EvictedBy(a) == IF Len(a.snapshots) + 1 > a.history_capacity
                THEN Len(a.snapshots) + 1 - a.history_capacity ELSE 0

\* the append evicts the snapshot that is active
ActiveEvicted(a) == a.active_snapshot < EvictedBy(a)

(***************************************************************************)
(* C1  Revision ids                                                        *)
(***************************************************************************)
RevisionsOrdered ==
    /\ \A i \in 1..(Len(app.snapshots) - 1) :
          app.snapshots[i].revision < app.snapshots[i + 1].revision
    /\ \A i \in 1..Len(app.snapshots) : app.snapshots[i].revision < app.next_revision

NewRevisionsAreFresh ==
    /\ app'.next_revision >= app.next_revision
    /\ \A j \in 1..Len(app'.snapshots) :
          \/ \E i \in 1..Len(app.snapshots) : app.snapshots[i] = app'.snapshots[j]
          \/ /\ app'.snapshots[j].revision >= app.next_revision
             /\ app'.snapshots[j].revision < app'.next_revision

\* C1: the first snapshot has revision 1; in every state the stored revisions
\* strictly increase from oldest to newest and lie below next_revision; every
\* step leaves next_revision at least as large, and a snapshot that is new in
\* the store carries a revision at or above the old next_revision, hence above
\* every revision assigned before, evicted and cleared ones included.
C1_RevisionsStrictlyIncrease ==
    /\ Revisions(app) = <<1>>
    /\ []RevisionsOrdered
    /\ [][NewRevisionsAreFresh]_vars

\* two evictions happened: a store of capacity 2 holds revisions 3 and 4
C1_Witness ==
    /\ app.history_capacity = 2
    /\ Revisions(app) = <<3, 4>>

(***************************************************************************)
(* C2  Capacity                                                            *)
(***************************************************************************)
WithinCapacity ==
    /\ app.history_capacity >= 1
    /\ Len(app.snapshots) >= 1
    /\ Len(app.snapshots) <= app.history_capacity

EvictsOldestFirst ==
    AcceptedAppend =>
        LET all == Append(app.snapshots, app'.snapshots[Len(app'.snapshots)])
        IN app'.snapshots = SubSeq(all, EvictedBy(app) + 1, Len(all))

\* C2: the store always holds between 1 and history_capacity snapshots, and an
\* accepted append leaves the old snapshots followed by the new one, minus as
\* many of the oldest as exceed the capacity.
C2_StoreWithinCapacity == []WithinCapacity /\ [][EvictsOldestFirst]_vars

\* a full store of capacity 3 after an append that evicted revision 1
C2_Witness ==
    /\ pc = "poll_watch"
    /\ app.history_capacity = 3
    /\ Revisions(app) = <<2, 3, 4>>

(***************************************************************************)
(* C3  Live mode follows an append                                         *)
(***************************************************************************)
\* C3: an accepted append made in live mode ends in live mode.
C3_LiveFollowsAppend == [][(AcceptedAppend /\ LiveMode(app)) => LiveMode(app')]_vars

\* live on revision 4 after an append that evicted, capacity 3
C3_Witness ==
    /\ pc = "poll_watch"
    /\ StatusIs(app, "Reloaded", 7)
    /\ app.history_capacity = 3
    /\ Revisions(app) = <<2, 3, 4>>
    /\ app.active_snapshot = 2

(***************************************************************************)
(* C4  History mode keeps its snapshot across an append                    *)
(***************************************************************************)
\* C4 as claimed: in history mode, if the active snapshot is not evicted, the
\* active index has the same value after an accepted append.
C4_Original_IndexUnchanged ==
    [][(AcceptedAppend /\ ~LiveMode(app) /\ ~ActiveEvicted(app))
          => app'.active_snapshot = app.active_snapshot]_vars

\* C4 amended: in history mode, if the active snapshot is not evicted, an
\* accepted append leaves the active index on the same snapshot: its value
\* drops by the number of snapshots evicted (0 without eviction), the
\* snapshot it designates is the one it designated before, and the displayed
\* document is unchanged.
C4_HistoryKeepsSnapshot ==
    [][(AcceptedAppend /\ ~LiveMode(app) /\ ~ActiveEvicted(app))
          => /\ app'.active_snapshot = app.active_snapshot - EvictedBy(app)
             /\ app'.snapshots[app'.active_snapshot + 1]
                   = app.snapshots[app.active_snapshot + 1]
             /\ app'.doc.rendered = app.doc.rendered]_vars

\* history mode after an append that evicted revision 1 while revision 2 was
\* shown: the index went from 1 to 0 and still shows revision 2
C4_Witness ==
    /\ pc = "poll_watch"
    /\ StatusIs(app, "LIVE advanced to", 4)
    /\ app.history_capacity = 3
    /\ Revisions(app) = <<2, 3, 4>>
    /\ app.active_snapshot = 0
    /\ app.doc.rendered = app.snapshots[1].rendered

(***************************************************************************)
(* C5  Eviction of the active snapshot                                     *)
(***************************************************************************)
\* C5: when an accepted append in history mode evicts the active snapshot
\* (index 0, store at capacity), the active index is 0 afterwards, it
\* designates the snapshot that was second oldest, and the displayed document
\* is that snapshot's rendering.
C5_EvictedActiveRebinds ==
    [][(AcceptedAppend /\ ~LiveMode(app) /\ ActiveEvicted(app))
          => /\ app'.active_snapshot = 0
             /\ app'.snapshots[1] = app.snapshots[2]
             /\ app'.doc.rendered = app'.snapshots[1].rendered]_vars

\* capacity 2: revision 1 was shown in history mode and was evicted; the view
\* is now on revision 2, one behind revision 3
C5_Witness ==
    /\ pc = "poll_watch"
    /\ StatusIs(app, "LIVE advanced to", 4)
    /\ app.history_capacity = 2
    /\ Revisions(app) = <<2, 3>>
    /\ app.active_snapshot = 0
    /\ app.doc.rendered = app.snapshots[1].rendered

(***************************************************************************)
(* C6  Refused append                                                      *)
(***************************************************************************)
\* every rendering a file of the model can have
AllRenderings == FileContents("main.md") \cup FileContents("other.md")

SameTextAsLast(a, rendered) ==
    PlainLines(rendered) = PlainLines(a.snapshots[Len(a.snapshots)].rendered)

StoreAndViewUnchanged(before, after) ==
    /\ after.snapshots = before.snapshots
    /\ after.next_revision = before.next_revision
    /\ after.active_snapshot = before.active_snapshot
    /\ after.scroll = before.scroll
    /\ after.selected_link = before.selected_link
    /\ after.doc = before.doc

RefusesSameText(rendered) ==
    SameTextAsLast(app, rendered) =>
        /\ ~push_watch_snapshot(app, rendered).accepted
        /\ StoreAndViewUnchanged(app, push_watch_snapshot(app, rendered).app)

\* C6: wherever a reload is about to run, push_watch_snapshot returns false and
\* changes nothing of the store and the view for every rendering with the plain
\* lines of the last snapshot; and a reload that reports "no text changes" (the
\* false return) has left snapshots, next revision, active index, scroll,
\* selected link and displayed document as they were.
C6_RefusedAppendChangesNothing ==
    [][/\ (pc = "reload" /\ app.watch_requested)
              => \A rendered \in AllRenderings : RefusesSameText(rendered)
       /\ (ReloadStep /\ StatusIs(app', "Reloaded", 3))
              => StoreAndViewUnchanged(app, app')]_vars

\* a reload was refused in history mode (revision 1 of 2 shown) on the short
\* document, whose restyled rendering has the same plain lines
C6_Witness ==
    /\ pc = "poll_watch"
    /\ StatusIs(app, "Reloaded", 3)
    /\ Revisions(app) = <<1, 2>>
    /\ app.active_snapshot = 0
    /\ SameTextAsLast(app, DocShortRestyled)

(***************************************************************************)
(* C7  Store reset                                                         *)
(***************************************************************************)
EmptyDiff(diff) ==
    /\ diff.added = 0
    /\ diff.removed = 0
    /\ diff.hunks = <<>>
    /\ DOMAIN diff.section_deltas = {}
    /\ ~diff.overflow

\* C7: after a key dispatch that reset the store (an internal link opened, or a
\* back-pop), the store holds exactly one snapshot, with an empty diff, and the
\* active index is 0.
C7_ResetLeavesOneSnapshot ==
    [][ResetStep => /\ Len(app'.snapshots) = 1
                    /\ EmptyDiff(app'.snapshots[1].diff)
                    /\ app'.snapshots[1].rendered = app'.doc.rendered
                    /\ app'.active_snapshot = 0]_vars

\* a link was opened after the store had grown to revisions beyond 2
C7_Witness ==
    /\ pc = "draw"
    /\ Len(app.backstack) = 1
    /\ app.doc.path = Some(Absolute("other.md"))
    /\ Revisions(app) = <<4>>

(***************************************************************************)
(* C8  Active index in range                                               *)
(***************************************************************************)
\* C8: in every state 0 <= active_snapshot <= len - 1.
C8_ActiveIndexInRange ==
    /\ app.active_snapshot >= 0
    /\ app.active_snapshot <= Len(app.snapshots) - 1

\* history mode in a full store of capacity 3 after an eviction, two behind
C8_Witness ==
    /\ StatusIs(app, "HISTORY", 4)
    /\ Revisions(app) = <<2, 3, 4>>
    /\ app.active_snapshot = 0

(***************************************************************************)
(* C9  Scroll bound                                                        *)
(***************************************************************************)
MaxScrollOf(a) ==
    LET total == Len(a.doc.rendered.lines)
        visible == IF a.viewport_height > 1 THEN a.viewport_height ELSE 1
    IN IF total <= visible THEN 0
       ELSE IF total - visible > U16_MAX THEN U16_MAX ELSE total - visible

\* C9: in every state, hence after every key dispatch, reload and draw, scroll
\* is at most lines.len() - max(viewport_height, 1), saturating at 0 and at
\* the 16-bit maximum, computed on the displayed document.
C9_ScrollWithinMax == app.scroll <= MaxScrollOf(app)

\* the document shrank from four lines to two on a reload while scroll was 3
\* in a one-line viewport; scroll is now at the new maximum
C9_Witness ==
    /\ pc = "poll_watch"
    /\ StatusIs(app, "Reloaded", 7)
    /\ Len(app.doc.rendered.lines) = 2
    /\ app.viewport_height = 1
    /\ app.scroll = 1

(***************************************************************************)
(* C10  TOC selection and scroll                                           *)
(***************************************************************************)
\* the largest TOC index whose line is at most scroll, 0 if there is none
TocPredecessor(a) ==
    LET toc == a.doc.rendered.toc
        hits == {i \in 1..Len(toc) : toc[i].line <= a.scroll}
    IN IF hits = {} THEN 0 ELSE (CHOOSE i \in hits : \A k \in hits : k <= i) - 1

\* C10: in every state toc_selected is the largest TOC index whose line is at
\* most scroll, 0 if there is none.
C10_TocFollowsScroll == app.toc_selected = TocPredecessor(app)

\* the clamp of draw: scroll may drop, toc_selected is not recomputed
DrawClampStep ==
    /\ pc = "draw"
    /\ app'.scroll <= app.scroll
    /\ app'.toc_selected = app.toc_selected

\* j/k with the TOC open: the selection moves by one inside the TOC, scroll stays
TocCursorStep ==
    /\ pc = "poll_key"
    /\ app.toc_open
    /\ app'.scroll = app.scroll
    /\ app'.doc = app.doc
    /\ app'.toc_selected \in {app.toc_selected - 1, app.toc_selected + 1}
    /\ app'.toc_selected \in 0..(Len(app.doc.rendered.toc) - 1)

UntouchedStep ==
    /\ app'.scroll = app.scroll
    /\ app'.toc_selected = app.toc_selected
    /\ app'.doc.rendered.toc = app.doc.rendered.toc

\* What holds in place of C10: toc_selected is the predecessor of scroll
\* initially and after every step that sets scroll or replaces the displayed
\* document, with two exceptions: the clamp at draw time lowers scroll and
\* leaves toc_selected as it was, and j/k while the TOC is open move
\* toc_selected by one inside the TOC and leave scroll as it was; every other
\* step leaves scroll, toc_selected and the TOC untouched.
TocSyncedBySetters ==
    /\ app.toc_selected = TocPredecessor(app)
    /\ [][\/ app'.toc_selected = TocPredecessor(app')
          \/ DrawClampStep
          \/ TocCursorStep
          \/ UntouchedStep]_vars

(***************************************************************************)
(* C11  Scroll after a change of the active snapshot                       *)
(***************************************************************************)
ActiveRevision(a) == a.snapshots[a.active_snapshot + 1].revision

\* a step after which another snapshot is shown: an append followed in live
\* mode, an eviction of the active snapshot, h/l, or L
SnapshotChangeStep ==
    /\ pc \in {"reload", "poll_key"}
    /\ app'.next_revision \in {app.next_revision, app.next_revision + 1}
    /\ ~ResetStep
    /\ ActiveRevision(app') # ActiveRevision(app)

\* 0-based lines of the document whose text contains the query, ignoring case
MatchLines(rendered, query) ==
    {i \in 0..(Len(rendered.lines) - 1) :
        contains(to_ascii_lowercase(rendered.lines[i + 1].plain), to_ascii_lowercase(query))}

\* the k-th (0-based) smallest element of a set of numbers
KthSmallest(S, k) == CHOOSE x \in S : Cardinality({y \in S : y < x}) = k

AnchorOf(hunk, total_lines) ==
    IF total_lines = 0 THEN 0
    ELSE Min(IF hunk.end_line > hunk.start_line THEN hunk.start_line
             ELSE Max(hunk.start_line - 1, 0),
             total_lines - 1)

ScrollAfterChange(before, after, hits) ==
    IF before.search_query # <<>> /\ hits # {}
    THEN Min(KthSmallest(hits, Min(before.current_match, Cardinality(hits) - 1)),
             MaxScrollOf(after))
    ELSE IF before.scroll <= MaxScrollOf(after) THEN before.scroll
    ELSE IF after.snapshots[after.active_snapshot + 1].diff.hunks # <<>>
    THEN Min(AnchorOf(after.snapshots[after.active_snapshot + 1].diff.hunks[1],
                      Len(after.doc.rendered.lines)),
             MaxScrollOf(after))
    ELSE MaxScrollOf(after)

\* C11: after a step that changes the active snapshot, scroll is the line of
\* the current search match (clamped to max_scroll) if the query is non-empty
\* and matches the new document; else the old scroll if it is at most the new
\* max_scroll; else the anchor of the new active snapshot's first hunk
\* (clamped) if it has one; else max_scroll.
C11_ScrollAfterSnapshotChange ==
    [][SnapshotChangeStep =>
          app'.scroll = ScrollAfterChange(app, app',
                            MatchLines(app'.doc.rendered, app.search_query))]_vars

\* revision 1 was shown in history mode with the query "x", which it does not
\* match; the append of revision 3 evicted it and the view moved to revision
\* 2, where the query matches line 2
C11_Witness ==
    /\ pc = "poll_watch"
    /\ StatusIs(app, "LIVE advanced to", 4)
    /\ Revisions(app) = <<2, 3>>
    /\ app.active_snapshot = 0
    /\ app.search_query = <<"x">>
    /\ app.search_matches = <<2>>
    /\ app.scroll = 2

(***************************************************************************)
(* The diff engine on its own (SpecDiff)                                   *)
(***************************************************************************)
\* compute_line_diff has returned
LineDiffReturned == call.fn = "compute_line_diff" /\ call.result # None

\* every hunk lies inside the new document with end_line = start_line + added,
\* and each hunk starts after the start and not before the end of the one before
HunksOrdered(hunks, new_len) ==
    /\ \A k \in 1..Len(hunks) :
          /\ hunks[k].start_line <= hunks[k].end_line
          /\ hunks[k].end_line <= new_len
          /\ hunks[k].end_line = hunks[k].start_line + hunks[k].added
    /\ \A k \in 2..Len(hunks) :
          /\ hunks[k].start_line > hunks[k - 1].start_line
          /\ hunks[k].start_line >= hunks[k - 1].end_line

\* C12: for all old, new and max_cells, the hunks of compute_line_diff are in
\* strictly increasing order of start_line and pairwise disjoint: each has
\* start_line <= end_line <= len(new) and end_line = start_line + added, and
\* each starts at or after the end of the hunk before it
C12_HunksSortedAndDisjoint ==
    LineDiffReturned => HunksOrdered(call.result[1].hunks, Len(call.new_lines))

\* a diff of two hunks, the first adding lines and the second only removing
C12_Witness ==
    /\ LineDiffReturned
    /\ Len(call.result[1].hunks) = 2
    /\ call.result[1].hunks[1].added > 0
    /\ call.result[1].hunks[2].added = 0
    /\ call.result[1].hunks[2].removed > 0

RECURSIVE TotalAdded(_)
TotalAdded(hunks) ==
    IF hunks = <<>> THEN 0 ELSE hunks[1].added + TotalAdded(Tail(hunks))

RECURSIVE TotalRemoved(_)
TotalRemoved(hunks) ==
    IF hunks = <<>> THEN 0 ELSE hunks[1].removed + TotalRemoved(Tail(hunks))

\* C13: when compute_line_diff returns overflow = false, the added counts of
\* its hunks sum to its added total and the removed counts to its removed total
C13_TotalsAreHunkSums ==
    (LineDiffReturned /\ ~call.result[1].overflow) =>
        /\ TotalAdded(call.result[1].hunks) = call.result[1].added
        /\ TotalRemoved(call.result[1].hunks) = call.result[1].removed

\* a diff from the LCS path with two hunks, each replacing lines
C13_Witness ==
    /\ LineDiffReturned
    /\ ~call.result[1].overflow
    /\ Len(call.result[1].hunks) = 2
    /\ \A k \in 1..2 : call.result[1].hunks[k].added > 0 /\ call.result[1].hunks[k].removed > 0
    /\ call.result[1].added = 2

\* build_snapshot_diff has returned
SnapshotDiffReturned == call.fn = "build_snapshot_diff" /\ call.result # None

\* C14: the diff of a document against itself is empty: compute_line_diff(l, l, m)
\* has added = removed = 0, no hunks and overflow = false for every max_cells m,
\* also one below the size of the table, and build_snapshot_diff(d, d) has in
\* addition no section deltas and no top_section
C14_SelfDiffIsEmpty ==
    /\ (LineDiffReturned /\ call.old_lines = call.new_lines) =>
            /\ call.result[1].added = 0 /\ call.result[1].removed = 0
            /\ call.result[1].hunks = <<>>
            /\ ~call.result[1].overflow
    /\ (SnapshotDiffReturned /\ call.previous = call.next) =>
            /\ call.result[1].added = 0 /\ call.result[1].removed = 0
            /\ call.result[1].hunks = <<>>
            /\ ~call.result[1].overflow
            /\ DOMAIN call.result[1].section_deltas = {}
            /\ call.result[1].top_section = None

\* a document of several lines with headings diffed against itself
C14_Witness ==
    /\ SnapshotDiffReturned
    /\ call.previous = call.next
    /\ Len(call.next.lines) >= 2
    /\ call.next.toc # <<>>
    /\ call.result[1] = SnapshotDiffDefault

\* a sequence of lines diffed against itself under a limit below its table
C14_SmallLimit ==
    /\ LineDiffReturned
    /\ call.old_lines = call.new_lines
    /\ (Len(call.old_lines) + 1) * (Len(call.new_lines) + 1) > call.max_cells

\* old_lines with, at each hunk in turn, the next `removed` lines replaced by
\* the lines start_line..end_line of new_lines; lines between hunks are copied
\* from old_lines
RECURSIVE Patch(_, _, _, _, _, _)
Patch(old_lines, new_lines, hunks, k, old_pos, out) ==
    IF k > Len(hunks) THEN out \o SubSeq(old_lines, old_pos + 1, Len(old_lines))
    ELSE Patch(old_lines, new_lines, hunks, k + 1,
               old_pos + (hunks[k].start_line - Len(out)) + hunks[k].removed,
               out \o SubSeq(old_lines, old_pos + 1, old_pos + (hunks[k].start_line - Len(out)))
                   \o SubSeq(new_lines, hunks[k].start_line + 1, hunks[k].end_line))

\* C15: applying the hunks compute_line_diff returns to old reconstructs new:
\* the lines outside the hunks are pairwise equal, and replacing in old, at each
\* hunk, the next `removed` lines by new[start_line..end_line] gives exactly new,
\* on the overflow fallback as well
C15_HunksReconstructNew ==
    LineDiffReturned =>
        Patch(call.old_lines, call.new_lines, call.result[1].hunks, 1, 0, <<>>) = call.new_lines

\* an overflowed diff between a common first line and a common last line
C15_Witness ==
    /\ LineDiffReturned
    /\ call.result[1].overflow
    /\ call.result[1].hunks[1].start_line > 0
    /\ call.result[1].hunks[1].end_line < Len(call.new_lines)
    /\ Patch(call.old_lines, call.new_lines, call.result[1].hunks, 1, 0, <<>>) = call.new_lines

\* a diff of two hunks from the LCS path, after a common first line
C15_TwoHunks ==
    /\ LineDiffReturned
    /\ ~call.result[1].overflow
    /\ Len(call.result[1].hunks) = 2
    /\ call.result[1].hunks[1].start_line > 0

\* length of the longest common prefix of two sequences
LongestCommonPrefix(a, b) ==
    CHOOSE p \in 0..Min(Len(a), Len(b)) :
        /\ SubSeq(a, 1, p) = SubSeq(b, 1, p)
        /\ \A q \in (p + 1)..Min(Len(a), Len(b)) : SubSeq(a, 1, q) # SubSeq(b, 1, q)

\* length of the longest common suffix of what follows the first p elements
LongestCommonSuffix(a, b, p) ==
    CHOOSE s \in 0..(Min(Len(a), Len(b)) - p) :
        /\ SubSeq(a, Len(a) - s + 1, Len(a)) = SubSeq(b, Len(b) - s + 1, Len(b))
        /\ \A q \in (s + 1)..(Min(Len(a), Len(b)) - p) :
              SubSeq(a, Len(a) - q + 1, Len(a)) # SubSeq(b, Len(b) - q + 1, Len(b))

\* the changed region of a once the common prefix and suffix with b are removed
ChangedRegion(a, b) ==
    SubSeq(a, LongestCommonPrefix(a, b) + 1,
           Len(a) - LongestCommonSuffix(a, b, LongestCommonPrefix(a, b)))

ShareNoLine(a, b) == \A i \in 1..Len(a) : \A j \in 1..Len(b) : a[i] # b[j]

\* the result is the one hunk replacing old_region by new_region after p lines
OneHunkResult(result, p, old_region, new_region) ==
    /\ result.hunks = << DiffHunk(p, p + Len(new_region), Len(new_region), Len(old_region)) >>
    /\ result.added = Len(new_region)
    /\ result.removed = Len(old_region)

OneHunkOf(old_lines, new_lines, result) ==
    OneHunkResult(result, LongestCommonPrefix(old_lines, new_lines),
                  ChangedRegion(old_lines, new_lines), ChangedRegion(new_lines, old_lines))

\* C16 as stated: whenever the changed old region is empty, the changed new
\* region is empty, or the two share no line, compute_line_diff returns exactly
\* one hunk covering the changed region; two equal inputs, where both regions
\* are empty, refute it
C16_Original_OneHunk ==
    (/\ LineDiffReturned
     /\ \/ ChangedRegion(call.old_lines, call.new_lines) = <<>>
        \/ ChangedRegion(call.new_lines, call.old_lines) = <<>>
        \/ ShareNoLine(ChangedRegion(call.old_lines, call.new_lines),
                       ChangedRegion(call.new_lines, call.old_lines)))
        => OneHunkOf(call.old_lines, call.new_lines, call.result[1])

\* C16: when, after removing the longest common prefix (length p) and then the
\* longest common suffix, exactly one changed region is empty, or both are
\* non-empty and share no line, compute_line_diff returns exactly one hunk with
\* start_line = p, end_line = p + len(new region), added = len(new region),
\* removed = len(old region), and the totals are that hunk's counts; when both
\* regions are empty it returns no hunk
C16_OneHunkForOneSidedChange ==
    LineDiffReturned =>
        IF /\ ChangedRegion(call.old_lines, call.new_lines) = <<>>
           /\ ChangedRegion(call.new_lines, call.old_lines) = <<>>
        THEN call.result[1].hunks = <<>>
        ELSE (ShareNoLine(ChangedRegion(call.old_lines, call.new_lines),
                          ChangedRegion(call.new_lines, call.old_lines)))
                => OneHunkOf(call.old_lines, call.new_lines, call.result[1])

\* a replacement found on the LCS path: both regions non-empty and without a
\* common line, after a common first line
C16_Witness ==
    /\ LineDiffReturned
    /\ ~call.result[1].overflow
    /\ LongestCommonPrefix(call.old_lines, call.new_lines) > 0
    /\ Len(ChangedRegion(call.old_lines, call.new_lines)) >= 2
    /\ ChangedRegion(call.new_lines, call.old_lines) # <<>>
    /\ ShareNoLine(ChangedRegion(call.old_lines, call.new_lines),
                   ChangedRegion(call.new_lines, call.old_lines))
    /\ OneHunkOf(call.old_lines, call.new_lines, call.result[1])

\* number of cells of the LCS table of two changed regions
TableCells(old_region, new_region) == (Len(old_region) + 1) * (Len(new_region) + 1)

\* both changed regions are non-empty and their table is larger than max_cells
TableTooLarge(old_lines, new_lines, max_cells) ==
    /\ ChangedRegion(old_lines, new_lines) # <<>>
    /\ ChangedRegion(new_lines, old_lines) # <<>>
    /\ TableCells(ChangedRegion(old_lines, new_lines),
                  ChangedRegion(new_lines, old_lines)) > max_cells

\* C17: compute_line_diff sets overflow = true exactly when both trimmed regions
\* are non-empty and (len(old_mid) + 1) * (len(new_mid) + 1) > max_cells, a
\* product equal to max_cells not overflowing; it then returns exactly one hunk
\* covering the whole changed region with added = len(new_mid) and
\* removed = len(old_mid)
C17_OverflowIffTableTooLarge ==
    LineDiffReturned =>
        /\ call.result[1].overflow
              <=> TableTooLarge(call.old_lines, call.new_lines, call.max_cells)
        /\ call.result[1].overflow
              => OneHunkOf(call.old_lines, call.new_lines, call.result[1])

\* an overflowed diff of two regions that have a line in common
C17_Witness ==
    /\ LineDiffReturned
    /\ call.result[1].overflow
    /\ call.max_cells > 1
    /\ ~ShareNoLine(ChangedRegion(call.old_lines, call.new_lines),
                    ChangedRegion(call.new_lines, call.old_lines))
    /\ Len(call.result[1].hunks) = 1

\* a table of exactly max_cells cells: the LCS path is taken
C17_AtLimit ==
    /\ LineDiffReturned
    /\ ~call.result[1].overflow
    /\ ChangedRegion(call.old_lines, call.new_lines) # <<>>
    /\ TableCells(ChangedRegion(call.old_lines, call.new_lines),
                  ChangedRegion(call.new_lines, call.old_lines)) = call.max_cells

\* touched_toc_indices_for_hunk has returned for a non-empty TOC
TouchedReturned ==
    call.fn = "touched_toc_indices_for_hunk" /\ call.result # None /\ call.toc # <<>>

\* 0-based index of the last heading at or before the line, the first heading
\* when the line precedes them all
SectionOfLine(toc, line) ==
    IF \E i \in 1..Len(toc) : toc[i].line <= line
    THEN (CHOOSE i \in 1..Len(toc) :
            /\ toc[i].line <= line
            /\ \A j \in 1..Len(toc) : toc[j].line <= line => j <= i) - 1
    ELSE 0

\* the lines from the anchor line of a hunk over its new extent
SpannedLines(hunk, total_lines) ==
    IF hunk.end_line > hunk.start_line
    THEN AnchorOf(hunk, total_lines)..Max(AnchorOf(hunk, total_lines),
                                          Min(hunk.end_line, total_lines) - 1)
    ELSE {AnchorOf(hunk, total_lines)}

SeqRange(seq) == {seq[i] : i \in 1..Len(seq)}

\* C19: for every hunk, the lines used to find the touched TOC entries start at
\* the hunk's anchor line (start_line when end_line > start_line, otherwise
\* max(start_line - 1, 0)) and extend only over the hunk's new extent, so that a
\* pure-deletion hunk touches exactly one TOC entry, the predecessor heading of
\* its anchor line, even when a heading sits at line start_line
C19_TouchedFromAnchorOverExtent ==
    TouchedReturned =>
        /\ SeqRange(call.result[1]) =
                {SectionOfLine(call.toc, line) : line \in SpannedLines(call.hunk, call.total_lines)}
        /\ call.hunk.end_line = call.hunk.start_line =>
                call.result[1] =
                    << SectionOfLine(call.toc, AnchorOf(call.hunk, call.total_lines)) >>

\* a pure-deletion hunk inside the document with a heading on line start_line
DeletionBeforeHeading(hunk, toc, total_lines) ==
    /\ hunk.end_line = hunk.start_line
    /\ 0 < hunk.start_line /\ hunk.start_line < total_lines
    /\ \E i \in 1..Len(toc) : toc[i].line = hunk.start_line

\* what touched_toc_indices_for_hunk returns: the sections from the anchor line
\* over the new extent, and for a pure deletion inside the document also the
\* section of line start_line
TouchedAlsoAtDeletionPoint ==
    TouchedReturned =>
        SeqRange(call.result[1]) =
            {SectionOfLine(call.toc, line) : line \in SpannedLines(call.hunk, call.total_lines)}
            \cup (IF DeletionBeforeHeading(call.hunk, call.toc, call.total_lines)
                  THEN {SectionOfLine(call.toc, call.hunk.start_line)} ELSE {})

\* a pure deletion before a heading touches two TOC entries
C19_DeletionTouchesTwo ==
    /\ TouchedReturned
    /\ DeletionBeforeHeading(call.hunk, call.toc, call.total_lines)
    /\ Len(call.result[1]) = 2

\* build_snapshot_diff has returned for a next document with a non-empty TOC
SectionsReturned == SnapshotDiffReturned /\ call.next.toc # <<>>

\* the TOC indices the hunk touches in the next document of the call
TouchedBy(hunk) == touched_toc_indices_for_hunk(hunk, call.next.toc, Len(call.next.lines))

\* the hunks whose first touched TOC index is k
HunksWithPrimary(hunks, k) ==
    LET IsPrimary(hunk) == TouchedBy(hunk) # <<>> /\ TouchedBy(hunk)[1] = k
    IN SelectSeq(hunks, IsPrimary)

\* the keys are the touched indices, each hunk counts on the first index it
\* touches only, and top_section is the title of the smallest key
DeltasFollowTouched(diff) ==
    /\ DOMAIN diff.section_deltas = UNION {SeqRange(TouchedBy(diff.hunks[i])) : i \in 1..Len(diff.hunks)}
    /\ \A k \in DOMAIN diff.section_deltas :
          /\ diff.section_deltas[k].added = TotalAdded(HunksWithPrimary(diff.hunks, k))
          /\ diff.section_deltas[k].removed = TotalRemoved(HunksWithPrimary(diff.hunks, k))
    /\ diff.top_section =
          IF DOMAIN diff.section_deltas = {} THEN None
          ELSE Some(call.next.toc[KthSmallest(DOMAIN diff.section_deltas, 0) + 1].title)

\* every changed line of the next document, and the anchor line of every pure
\* deletion, has heading k as its last heading at or before it
AllChangesInSection(diff, k) ==
    /\ diff.hunks # <<>>
    /\ \A i \in 1..Len(diff.hunks) :
          \A line \in SpannedLines(diff.hunks[i], Len(call.next.lines)) :
              /\ call.next.toc[k + 1].line <= line
              /\ SectionOfLine(call.next.toc, line) = k

\* C18: for build_snapshot_diff(previous, next) with a non-empty TOC in next, the
\* keys of section_deltas are exactly the TOC indices touched by some hunk, each
\* hunk's added/removed is accumulated only on the first TOC index it touches,
\* and top_section is the title of the smallest key; in particular, when all
\* changed lines lie in one section k (the last heading at or before them),
\* section_deltas has exactly the key k and top_section is the title of k
C18_SectionDeltasByTouchedIndex ==
    SectionsReturned =>
        /\ DeltasFollowTouched(call.result[1])
        /\ \A k \in 0..(Len(call.next.toc) - 1) :
              AllChangesInSection(call.result[1], k) =>
                  /\ DOMAIN call.result[1].section_deltas = {k}
                  /\ call.result[1].top_section = Some(call.next.toc[k + 1].title)

\* the general part of C18 alone, which build_snapshot_diff satisfies
SectionDeltasFollowTouched == SectionsReturned => DeltasFollowTouched(call.result[1])

\* the one-section part of C18 for diffs without a deletion before a heading
OneSectionUnlessDeletionBeforeHeading ==
    (/\ SectionsReturned
     /\ \A i \in 1..Len(call.result[1].hunks) :
           ~DeletionBeforeHeading(call.result[1].hunks[i], call.next.toc, Len(call.next.lines)))
        => \A k \in 0..(Len(call.next.toc) - 1) :
              AllChangesInSection(call.result[1], k) =>
                  /\ DOMAIN call.result[1].section_deltas = {k}
                  /\ call.result[1].top_section = Some(call.next.toc[k + 1].title)

\* a deletion just before the second heading: both sections get an entry
C18_DeletionInTwoSections ==
    /\ SectionsReturned
    /\ Len(call.result[1].hunks) = 1
    /\ AllChangesInSection(call.result[1], 0)
    /\ DOMAIN call.result[1].section_deltas = {0, 1}

(***************************************************************************)
(* The renderer on its own (SpecRender)                                    *)
(***************************************************************************)
\* render_markdown has returned the finished document
RenderReturned == call.fn = "render_markdown" /\ call.result # None

\* C20: for every parser event sequence, after the renderer finishes every
\* LinkRef has line < lines.len() and never the sentinel usize::MAX, also a link
\* whose visible text is empty and which is the last content of the document
\* after an already-blank line
C20_LinksHaveLines ==
    RenderReturned =>
        \A i \in DOMAIN call.result[1].links :
            /\ call.result[1].links[i].line < Len(call.result[1].lines)
            /\ call.result[1].links[i].line # USIZE_MAX

\* while events are consumed, the links still carrying the sentinel are the
\* ones waiting in current_line_link_indices for their line to be flushed, and
\* every other link has the index of a line already produced
SentinelOnlyWhilePending ==
    (call.fn = "render_markdown" /\ call.result = None) =>
        \A i \in DOMAIN call.renderer.links :
            IF i - 1 \in SeqRange(call.renderer.current_line_link_indices)
            THEN call.renderer.links[i].line = USIZE_MAX
            ELSE call.renderer.links[i].line < Len(call.renderer.lines)

\* a finished document of several lines whose last link kept the sentinel
C20_LinkLeftWithoutLine ==
    /\ RenderReturned
    /\ Len(call.result[1].lines) >= 2
    /\ call.result[1].links # <<>>
    /\ call.result[1].links[Len(call.result[1].links)].line = USIZE_MAX

\* C21: for every parser event sequence, the finished document has at least one
\* line, and its TOC entries all have a level in 1..3 and a line below
\* lines.len(), the lines never decreasing in TOC order
C21_TocWellFormed ==
    RenderReturned =>
        /\ Len(call.result[1].lines) >= 1
        /\ \A i \in DOMAIN call.result[1].toc :
              /\ call.result[1].toc[i].level \in 1..3
              /\ call.result[1].toc[i].line < Len(call.result[1].lines)
        /\ \A i \in 2..Len(call.result[1].toc) :
              call.result[1].toc[i - 1].line <= call.result[1].toc[i].line

\* a finished document with two headings in its TOC
C21_Witness ==
    /\ RenderReturned
    /\ Len(call.result[1].toc) = 2
    /\ call.result[1].toc[1].line < call.result[1].toc[2].line
    /\ call.result[1].toc[2].line < Len(call.result[1].lines)

\* the document of no event at all: one empty line
C21_EmptyDocument ==
    /\ RenderReturned
    /\ call.events = 0
    /\ call.result[1].lines = << [segments |-> <<>>, plain |-> <<>>] >>

\* the renderer consumes the end of a heading
HeadingEndStep ==
    /\ call.fn = "render_markdown" /\ call.result = None
    /\ call'.events = call.events + 1
    /\ call'.last = <<"End", "Heading">>

\* level of the heading that is open
OpenHeadingLevel == call.open[Len(call.open)].level

\* C22: a heading end appends a TOC entry only when the heading has level <= 3
\* and its own text, trimmed, is non-empty, and the line and title of the entry
\* are those of the line flushed for that heading; a heading that produced no
\* line of its own never creates a TOC entry pointing at, or titled after, a
\* line produced by earlier content
C22_TocEntryFromOwnLine ==
    [][HeadingEndStep =>
          \/ call'.renderer.toc = call.renderer.toc
          \/ /\ OpenHeadingLevel <= 3
             /\ trim(call.renderer.current_plain) # <<>>
             /\ call'.renderer.toc =
                    Append(call.renderer.toc,
                           [level |-> OpenHeadingLevel,
                            title |-> trim(call.renderer.current_plain),
                            line |-> Len(call.renderer.lines)])]_vars

\* what the heading end does: an entry is appended exactly when the level is
\* <= 3 and the last line after the flush, the heading's own or else the one
\* before it, has a non-empty trimmed text
TocEntryFromLastLine ==
    [][HeadingEndStep =>
          IF call.renderer.current_plain # <<>>
          THEN call'.renderer.toc =
                  IF OpenHeadingLevel <= 3 /\ trim(call.renderer.current_plain) # <<>>
                  THEN Append(call.renderer.toc,
                              [level |-> OpenHeadingLevel,
                               title |-> trim(call.renderer.current_plain),
                               line |-> Len(call.renderer.lines)])
                  ELSE call.renderer.toc
          ELSE call'.renderer.toc =
                  IF /\ OpenHeadingLevel <= 3
                     /\ call.renderer.lines # <<>>
                     /\ trim(call.renderer.lines[Len(call.renderer.lines)].plain) # <<>>
                  THEN Append(call.renderer.toc,
                              [level |-> OpenHeadingLevel,
                               title |-> trim(call.renderer.lines[Len(call.renderer.lines)].plain),
                               line |-> Len(call.renderer.lines) - 1])
                  ELSE call.renderer.toc]_vars

\* an empty heading in a list item got a TOC entry titled after the bullet
C22_EntryFromBullet ==
    /\ call.fn = "render_markdown"
    /\ call.last = <<"End", "Heading">>
    /\ Len(call.renderer.toc) = 1
    /\ call.renderer.toc[1].title = <<"-">>
    /\ call.renderer.toc[1].line = 0

(***************************************************************************)
(* Errors inside the session                                               *)
(***************************************************************************)
\* a reload whose fs::read_to_string failed: the status carries its context
FailedReadStep == ReloadStep /\ StatusIs(app', "Reload failed", 3)

\* C23: if reading the file fails during a watch-triggered reload, the snapshot
\* store, the next revision id, the active index, the displayed document, the
\* scroll and the backstack are unchanged, the status becomes a 'Reload failed'
\* message, the watch latch is cleared, and the event loop continues
C23_FailedReloadKeepsState ==
    /\ [](pc = "reload" /\ app.watch_requested /\ app.doc.path # None =>
             \A watch_ok \in BOOLEAN :
                 reload_current(app, None, watch_ok) = [app |-> app, err |-> TRUE])
    /\ [][FailedReadStep =>
             /\ app'.snapshots = app.snapshots
             /\ app'.next_revision = app.next_revision
             /\ app'.active_snapshot = app.active_snapshot
             /\ app'.doc = app.doc
             /\ app'.scroll = app.scroll
             /\ app'.backstack = app.backstack
             /\ app'.status = <<"Reload failed", "Failed to reload", app.doc.path[1]>>
             /\ ~app'.watch_requested
             /\ pc' = "poll_watch" /\ exit' = "running" /\ term' = term]_vars

\* a failed read while an older revision of several is shown, scrolled down
C23_Witness ==
    /\ pc = "poll_watch"
    /\ StatusIs(app, "Reload failed", 3)
    /\ Len(app.snapshots) >= 2
    /\ ~is_live_mode(app)
    /\ app.scroll > 0
    /\ ~app.watch_requested

\* C24: no in-session error terminates the event loop: when opening the
\* selected link fails (target file unreadable, external opener fails, watcher
\* initialisation fails) or a back-pop fails to read the previous file, the
\* error is shown as a status message and the loop keeps running until the
\* user quits; so run_interactive never returns the error of a key handler
C24_HandlerErrorsKeepLoop == exit # "err of handle_key"

\* what run_interactive does with the error of a key handler: it returns it,
\* dropping the guard, and the status is left as the handler left it
HandlerErrorsEndLoop ==
    [][(pc = "poll_key" /\ exit' = "err of handle_key") =>
          /\ \E key \in {"Enter", "o", "Backspace"} : \E env \in DirEnvs(key) :
                /\ handle_key(app, key, env).err
                /\ app' = handle_key(app, key, env).app
          /\ pc' = "done" /\ DropGuard
          /\ app'.status = app.status]_vars

\* the session ended by the unreadable target of a link: the current file was
\* pushed on the backstack and is still the one shown
C24_LoopEndedByLink ==
    /\ pc = "done" /\ exit = "err of handle_key"
    /\ app.doc.path = Some("main.md")
    /\ Len(app.backstack) = 1
    /\ app.backstack[1].path = "main.md"

(***************************************************************************)
(* The terminal on the way out                                             *)
(***************************************************************************)
\* C25: on every path out of the interactive session (quit key, draw error,
\* key-poll error, watcher-init error, and a failure of either step of
\* terminal acquisition itself), raw mode is disabled and the alternate
\* screen is left: no exit path leaves the terminal with raw mode enabled
C25_TerminalRestoredOnExit == pc = "done" => ~term.raw /\ ~term.alt

\* the session is over and raw mode is still enabled
C25_RawModeLeftOn == pc = "done" /\ exit = "err" /\ term.raw /\ ~term.alt

\* what the code guarantees: once the guard exists every way out drops it,
\* which restores the parts of the terminal whose call succeeds; without a
\* guard the alternate screen was never entered
RestoredOnceGuarded ==
    /\ [][pc' = "done" /\ pc = "enter" => ~term'.alt /\ exit' = "err"]_vars
    /\ [][pc' = "done" /\ pc \notin {"enter", "done"} => DropGuard]_vars

(***************************************************************************)
(* The reload latch                                                        *)
(***************************************************************************)
\* app.poll_watch() in the loop
PollWatchStep == pc = "poll_watch" /\ pc' = "poll_key"

\* the events poll_watch is about to drain hold a successful one
OkPending(a) ==
    /\ a.watcher # None
    /\ \E i \in 1..Len(a.watcher[1].rx) : a.watcher[1].rx[i] = "Ok"

\* C26: whenever the loop drains at least one successful watcher event the
\* reload latch is set, and failed watcher events never set it; the next loop
\* iteration performs exactly one reload (at most one new revision, however
\* many events were drained) and clears the latch, so the latch is clear
\* again at every drain and is never serviced without being set; a set latch
\* is always serviced within one further iteration, unless the loop ends first
C26_LatchCoalescesEvents ==
    /\ [][PollWatchStep =>
             /\ app'.watch_requested = OkPending(app)
             /\ app.watcher # None => app'.watcher[1].rx = <<>>]_vars
    /\ [](pc = "poll_watch" => ~app.watch_requested)
    /\ [][pc = "reload" /\ app.watch_requested =>
             /\ pc' = "poll_watch"
             /\ ~app'.watch_requested
             /\ app'.next_revision \in {app.next_revision, app.next_revision + 1}
             /\ Len(app'.snapshots) <= Len(app.snapshots) + 1]_vars
    /\ [][pc = "reload" /\ ~app.watch_requested => app' = app]_vars
    /\ (app.watch_requested ~> (~app.watch_requested \/ pc = "done"))

\* a second latch, set by a drain after the first one was serviced by a reload
\* that added a revision
C26_Witness ==
    /\ pc = "poll_key"
    /\ app.watch_requested
    /\ app.watcher # None /\ app.watcher[1].rx = <<>>
    /\ app.next_revision = 3

\* three events wait for one drain, failed and successful ones among them
C26_ThreeEventsPending ==
    /\ pc = "poll_watch"
    /\ app.watcher # None
    /\ app.watcher[1].rx = <<"Err", "Ok", "Ok">>

(***************************************************************************)
(* Freshness decay                                                         *)
(***************************************************************************)
Seconds(n) == n * 1000

\* the age of the snapshot drawn, on the monotonic clock
Age(c) == c.now - c.created_instant

PhaseOfAge(age) ==
    IF age <= Seconds(2) THEN "bright"
    ELSE IF age <= Seconds(15) THEN "dim"
    ELSE "none"

PhaseRank(phase) == IF phase = "bright" THEN 0 ELSE IF phase = "dim" THEN 1 ELSE 2

PhaseOfFreshness(freshness) ==
    IF freshness = Some("Bright") THEN "bright"
    ELSE IF freshness = Some("Dim") THEN "dim"
    ELSE "none"

\* a line inside a hunk's new extent, or the anchor line of a pure deletion
ChangedLine(c, line) ==
    \E i \in 1..Len(c.hunks) :
       IF c.hunks[i].end_line > c.hunks[i].start_line
       THEN c.hunks[i].start_line <= line /\ line < c.hunks[i].end_line
       ELSE line = hunk_anchor_line(c.hunks[i], Len(c.lines))

TintOf(phase) ==
    IF phase = "bright" THEN "Rgb(70,35,0)"
    ELSE IF phase = "dim" THEN "Rgb(36,36,36)"
    ELSE ""

\* the background of every segment of the frame c holds: the tint of the
\* phase at draw time on changed lines, under the backgrounds of a search
\* match and of the selected link's line
FrameFollowsPhase(c) ==
    \A n \in 1..Len(c.lines) :
       /\ Len(c.result[1][n].spans) = Max(Len(c.lines[n]), 1)
       /\ \A k \in 1..Len(c.lines[n]) :
             LET bg == c.result[1][n].spans[k].bg
             IN IF c.selected_link_line = Some(n - 1) THEN bg = "Blue"
                ELSE IF (n - 1) \in c.search_matches THEN bg = "Rgb(40,40,40)"
                ELSE IF ChangedLine(c, n - 1) THEN bg = TintOf(PhaseOfAge(Age(c)))
                ELSE bg = ""

\* a line without segments is drawn as the marker and the empty span, which
\* has no background in any phase, changed or not, selected or not
BlankLinesPlain(c) ==
    \A n \in 1..Len(c.lines) : c.lines[n] = <<>> => c.result[1][n].spans = <<RawSpan>>

\* what the frames do follow: the phase is the claimed function of the age and
\* never moves backwards, the segments of a changed line carry the tint of
\* the phase at draw time, a blank line carries none
FreshnessFollowsAge ==
    /\ [](PhaseOfFreshness(change_freshness(call.created_instant, call.now))
             = PhaseOfAge(Age(call)))
    /\ [][PhaseRank(PhaseOfAge(Age(call'))) >= PhaseRank(PhaseOfAge(Age(call)))]_vars
    /\ [][call'.now = call.now => FrameFollowsPhase(call') /\ BlankLinesPlain(call')]_vars

\* every span drawn after the marker of a changed line that is neither a
\* search match nor the selected link's line has the tint of the phase
ChangedLinesTinted(c) ==
    \A n \in 1..Len(c.lines) :
       (/\ ChangedLine(c, n - 1)
        /\ (n - 1) \notin c.search_matches
        /\ c.selected_link_line # Some(n - 1))
       => \A k \in 1..Len(c.result[1][n].spans) :
             c.result[1][n].spans[k].bg = TintOf(PhaseOfAge(Age(c)))

\* C27: the freshness phase of a snapshot is a function of its age only, read
\* at draw time: bright while age <= 2 s, dim while 2 s < age <= 15 s, none
\* afterwards; as the clock advances the phase only moves bright -> dim ->
\* none, and a frame drawn gives the changed lines of the snapshot the bright
\* tint, the dim tint or no tint according to the phase at that draw
C27_ChangedLinesTinted ==
    /\ [](PhaseOfFreshness(change_freshness(call.created_instant, call.now))
             = PhaseOfAge(Age(call)))
    /\ [][PhaseRank(PhaseOfAge(Age(call'))) >= PhaseRank(PhaseOfAge(Age(call)))]_vars
    /\ [][call'.now = call.now => ChangedLinesTinted(call')]_vars

\* a hunk of two lines drawn within 2 s: the line of text has the bright
\* tint, the blank line of the same hunk has none
C27_BlankLineUntinted ==
    /\ call.result # None
    /\ Age(call) <= Seconds(2)
    /\ Len(call.lines) = 2
    /\ call.search_matches = {} /\ call.selected_link_line = None
    /\ ChangedLine(call, 0) /\ ChangedLine(call, 1)
    /\ call.lines[1] # <<>> /\ call.result[1][1].spans[1].bg = "Rgb(70,35,0)"
    /\ call.lines[2] = <<>> /\ call.result[1][2].spans = <<RawSpan>>

\* a changed line drawn with the dim tint, more than 2 s after the snapshot
C27_DimTint ==
    /\ call.result # None
    /\ Age(call) > Seconds(2)
    /\ \E n \in 1..Len(call.lines) :
          /\ ChangedLine(call, n - 1)
          /\ call.lines[n] # <<>>
          /\ call.result[1][n].spans[1].bg = "Rgb(36,36,36)"

\* a frame drawn after 15 s: the changed line has lost its tint
C27_TintGone ==
    /\ call.result # None
    /\ Age(call) > Seconds(15)
    /\ \E n \in 1..Len(call.lines) :
          /\ ChangedLine(call, n - 1)
          /\ call.lines[n] # <<>>
          /\ call.result[1][n].spans[1].bg = ""
          /\ call.result[1][n].marker.style.fg = "LightBlue"

\* a bright frame on the screen when the snapshot is exactly 2 s old
C27_BrightAtTwoSeconds ==
    /\ call.result # None
    /\ Age(call) = Seconds(2)
    /\ \E n \in 1..Len(call.lines) :
          /\ call.lines[n] # <<>>
          /\ call.result[1][n].spans[1].bg = "Rgb(70,35,0)"

(***************************************************************************)
(* Jumps between hunks and between headings                                *)
(***************************************************************************)
\* a press of the key outside search mode, handled without error
KeyStep(key) ==
    /\ pc = "poll_key" /\ ~app.search_mode /\ pc' = "draw"
    /\ \E env \in DirEnvs(key) : app' = handle_key(app, key, env).app

ActiveHunks(a) == current_snapshot(a)[1].diff.hunks

\* the anchors of the active snapshot's hunks, in the displayed document
AnchorSet(a) ==
    {hunk_anchor_line(ActiveHunks(a)[i], Len(a.doc.rendered.lines)) :
        i \in 1..Len(ActiveHunks(a))}

SmallestOf(S) == CHOOSE x \in S : \A y \in S : x <= y
LargestOf(S) == CHOOSE x \in S : \A y \in S : y <= x

\* the anchor a jump goes to: the nearest one beyond the scroll position in
\* the direction of the jump, or the first one in that direction after wrapping
HunkTarget(a, reverse) ==
    LET beyond == {x \in AnchorSet(a) : IF reverse THEN x < a.scroll ELSE x > a.scroll}
    IN IF reverse
       THEN IF beyond # {} THEN LargestOf(beyond) ELSE LargestOf(AnchorSet(a))
       ELSE IF beyond # {} THEN SmallestOf(beyond) ELSE SmallestOf(AnchorSet(a))

\* the 1-based position of the hunk anchored at the line
HunkNumberAt(a, line) ==
    SmallestOf({i \in 1..Len(ActiveHunks(a)) :
                   hunk_anchor_line(ActiveHunks(a)[i], Len(a.doc.rendered.lines)) = line})

HunkJumpStep(reverse) == KeyStep(IF reverse THEN "(" ELSE ")")

\* with no hunk only the status changes; with hunks the status names the hunk
\* jumped to
HunkJumpReported(reverse) ==
    IF ActiveHunks(app) = <<>>
    THEN app' = [app EXCEPT !.status = <<"No changed hunks in selected revision">>]
    ELSE app'.status = <<"Hunk", HunkNumberAt(app, HunkTarget(app, reverse)),
                         Len(ActiveHunks(app))>>

\* C28 as stated: a hunk jump with N >= 1 hunks moves the scroll position to
\* the smallest hunk anchor strictly greater than the scroll (or the smallest
\* anchor if none) when forward, to the largest anchor strictly smaller (or
\* the largest if none) when backward, with status 'Hunk k/N', k the position
\* of the hunk jumped to; with no hunks only the status changes
C28_Original_ScrollAtAnchor ==
    [][\A reverse \in BOOLEAN : HunkJumpStep(reverse) =>
          /\ HunkJumpReported(reverse)
          /\ ActiveHunks(app) # <<>> => app'.scroll = HunkTarget(app, reverse)]_vars

\* C28: the same with the scroll position bounded by max_scroll: the scroll
\* moves to the anchor, or to max_scroll when the anchor lies below it
C28_HunkJumpClamped ==
    [][\A reverse \in BOOLEAN : HunkJumpStep(reverse) =>
          /\ HunkJumpReported(reverse)
          /\ ActiveHunks(app) # <<>> =>
                app'.scroll = Min(HunkTarget(app, reverse), max_scroll(app))]_vars

\* after a jump to the second of several hunks, below the top of the document
C28_Witness ==
    /\ pc = "draw"
    /\ StatusIs(app, "Hunk", 3)
    /\ app.status[2] = 2 /\ app.status[3] >= 2
    /\ app.scroll > 0
    /\ app.scroll \in AnchorSet(app)

\* after a jump whose anchor lies below max_scroll
C28_StoppedAboveAnchor ==
    /\ pc = "draw"
    /\ StatusIs(app, "Hunk", 3)
    /\ Len(ActiveHunks(app)) = app.status[3]
    /\ app.scroll = max_scroll(app)
    /\ app.scroll <
          hunk_anchor_line(ActiveHunks(app)[app.status[2]], Len(app.doc.rendered.lines))

HeadingJumpStep(reverse) == KeyStep(IF reverse THEN "[" ELSE "]")

\* the 0-based index of the TOC entry a heading jump goes to: forward the
\* first entry below the scroll position, or the last entry; backward the
\* last entry above it, or the first entry
HeadingTarget(a, reverse) ==
    LET toc == a.doc.rendered.toc
        beyond == {i \in 1..Len(toc) :
                      IF reverse THEN toc[i].line < a.scroll ELSE toc[i].line > a.scroll}
    IN IF reverse
       THEN IF beyond # {} THEN LargestOf(beyond) - 1 ELSE 0
       ELSE IF beyond # {} THEN SmallestOf(beyond) - 1 ELSE Len(toc) - 1

TargetEntry(a, reverse) == a.doc.rendered.toc[HeadingTarget(a, reverse) + 1]

\* with an empty TOC only the status changes; otherwise the status names the
\* entry jumped to
HeadingJumpReported(reverse) ==
    IF app.doc.rendered.toc = <<>>
    THEN app' = [app EXCEPT !.status = <<"No headings in TOC">>]
    ELSE app'.status = <<"Jumped to", TargetEntry(app, reverse).title>>

\* C29 as stated: with a non-empty TOC a forward heading jump selects the
\* first TOC entry whose line is greater than the scroll, or the last entry;
\* a backward jump the last entry whose line is smaller, or the first entry;
\* afterwards the scroll is that entry's line and the TOC selected index is
\* that entry; with an empty TOC scroll and selection are unchanged
C29_Original_ScrollAtHeading ==
    [][\A reverse \in BOOLEAN : HeadingJumpStep(reverse) =>
          /\ HeadingJumpReported(reverse)
          /\ app.doc.rendered.toc # <<>> =>
                /\ app'.scroll = TargetEntry(app, reverse).line
                /\ app'.toc_selected = HeadingTarget(app, reverse)]_vars

\* C29: the same with the scroll position bounded by max_scroll: the scroll
\* becomes the entry's line or max_scroll if that is smaller, and the TOC
\* selected index is the last entry at or above the new scroll position,
\* which is the entry jumped to whenever its line is not below max_scroll
C29_HeadingJumpClamped ==
    [][\A reverse \in BOOLEAN : HeadingJumpStep(reverse) =>
          /\ HeadingJumpReported(reverse)
          /\ app.doc.rendered.toc # <<>> =>
                /\ app'.scroll = Min(TargetEntry(app, reverse).line, max_scroll(app))
                /\ app'.toc_selected = TocPredecessor(app')
                /\ TargetEntry(app, reverse).line <= max_scroll(app) =>
                      app'.toc_selected = HeadingTarget(app, reverse)
                /\ app'.doc = app.doc]_vars

\* after a jump to a heading below the top: scroll and selection are on it
C29_Witness ==
    /\ pc = "draw"
    /\ StatusIs(app, "Jumped to", 2)
    /\ app.scroll > 0
    /\ app.toc_selected >= 1
    /\ app.doc.rendered.toc[app.toc_selected + 1].line = app.scroll
    /\ app.doc.rendered.toc[app.toc_selected + 1].title = app.status[2]

\* after a jump to a heading below max_scroll: another entry is selected
C29_SelectionNotTarget ==
    /\ pc = "draw"
    /\ StatusIs(app, "Jumped to", 2)
    /\ app.scroll = max_scroll(app)
    /\ \E i \in 1..Len(app.doc.rendered.toc) :
          /\ app.doc.rendered.toc[i].title = app.status[2]
          /\ app.doc.rendered.toc[i].line > app.scroll
          /\ app.toc_selected # i - 1

(***************************************************************************)
(* Revision keys and the timeline toggle                                   *)
(***************************************************************************)
RevisionBackStep == \E key \in {"h", "Left"} : KeyStep(key)
RevisionForwardStep == \E key \in {"l", "Right"} : KeyStep(key)

\* nothing but the status message differs between the two App values
OnlyStatusChanged(before, after) == after = [before EXCEPT !.status = after.status]

\* C30: in watch mode revision-back sets the active index to
\* max(active - 1, 0), revision-forward to min(active + 1, last index) and
\* jump-to-live to the last index; outside watch mode revision-back,
\* revision-forward, jump-to-live and the timeline toggle change nothing
\* except the status message
C30_RevisionKeysByMode ==
    /\ [][RevisionBackStep =>
             IF app.cli.watch
             THEN app'.active_snapshot = Max(app.active_snapshot - 1, 0)
             ELSE OnlyStatusChanged(app, app')]_vars
    /\ [][RevisionForwardStep =>
             IF app.cli.watch
             THEN app'.active_snapshot = Min(app.active_snapshot + 1, Len(app.snapshots) - 1)
             ELSE OnlyStatusChanged(app, app')]_vars
    /\ [][KeyStep("L") =>
             IF app.cli.watch
             THEN app'.active_snapshot = Len(app.snapshots) - 1
             ELSE OnlyStatusChanged(app, app')]_vars
    /\ [][KeyStep("v") =>
             IF app.cli.watch
             THEN app' = [app EXCEPT !.timeline_open = ~app.timeline_open]
             ELSE OnlyStatusChanged(app, app')]_vars

\* in watch mode, one revision back from the live one of three
C30_Witness ==
    /\ pc = "draw"
    /\ app.cli.watch
    /\ Len(app.snapshots) = 3
    /\ app.active_snapshot = 1
    /\ app.status = <<"HISTORY", app.snapshots[2].revision, 1, "behind LIVE">>

\* outside watch mode, after the timeline key: the dock stays closed
C30_OutsideWatch ==
    /\ pc = "draw"
    /\ ~app.cli.watch
    /\ app.status = <<"Timeline is available only in --watch mode">>
    /\ ~app.timeline_open
    /\ app.active_snapshot = 0

(***************************************************************************)
(* Link cycling                                                            *)
(***************************************************************************)
LinkCount(a) == Len(a.doc.rendered.links)

CycleStep(reverse) == KeyStep(IF reverse THEN "BackTab" ELSE "Tab")

\* the index after one press, counted modulo the number of links
CycledIndex(a, reverse) ==
    IF reverse THEN (a.selected_link[1] + LinkCount(a) - 1) % LinkCount(a)
    ELSE (a.selected_link[1] + 1) % LinkCount(a)

\* n presses of Tab
RECURSIVE TabTimes(_, _)
TabTimes(a, n) == IF n = 0 THEN a ELSE TabTimes(cycle_link(a, FALSE), n - 1)

\* C31: with L >= 1 links in the displayed document, Tab changes the selected
\* link index i to (i+1) mod L and Shift-Tab to (i-1) mod L, and the scroll
\* becomes the selected link's line clamped to max_scroll; L presses of Tab
\* return the selection to where it started; with no links the selection
\* stays none and the scroll is unchanged
C31_LinkCycleWraps ==
    /\ [](app.selected_link = None <=> LinkCount(app) = 0)
    /\ [][\A reverse \in BOOLEAN : CycleStep(reverse) =>
             IF LinkCount(app) = 0
             THEN app'.selected_link = None /\ app'.scroll = app.scroll
             ELSE /\ app'.selected_link = Some(CycledIndex(app, reverse))
                  /\ app'.scroll =
                        Min(app.doc.rendered.links[CycledIndex(app, reverse) + 1].line,
                            max_scroll(app))]_vars
    /\ [](LinkCount(app) >= 1 =>
             TabTimes(app, LinkCount(app)).selected_link = app.selected_link)

\* the last of three links is selected and the scroll is on its line
C31_Witness ==
    /\ pc = "draw"
    /\ LinkCount(app) = 3
    /\ app.selected_link = Some(2)
    /\ app.scroll = app.doc.rendered.links[3].line
    /\ app.scroll = 2

\* the last link is selected and its line lies below max_scroll
C31_LinkBelowMaxScroll ==
    /\ pc = "draw"
    /\ app.selected_link = Some(2)
    /\ app.scroll = max_scroll(app)
    /\ app.scroll < app.doc.rendered.links[3].line

(***************************************************************************)
(* Search matches                                                          *)
(***************************************************************************)
\* the needle occurs in the text when ASCII letters are compared without case
OccursIgnoringAsciiCase(text, needle) ==
    \E start \in 0..(Len(text) - Len(needle)) :
       \A k \in 1..Len(needle) : AsciiLower(text[start + k]) = AsciiLower(needle[k])

\* the 0-based indices of the displayed lines that match the query, ascending
ExpectedMatches(a) ==
    IF a.search_query = <<>> THEN <<>>
    ELSE Ascending({idx \in 0..(Len(a.doc.rendered.lines) - 1) :
                       OccursIgnoringAsciiCase(a.doc.rendered.lines[idx + 1].plain,
                                               a.search_query)})

\* C32: in every reachable state the match list equals the ascending list of
\* all line indices of the displayed document whose plain text contains the
\* query as an ASCII-case-insensitive substring (empty when the query is
\* empty), and the current match index is below the list length whenever the
\* list is non-empty
C32_MatchesFollowDocument ==
    /\ app.search_matches = ExpectedMatches(app)
    /\ app.search_matches # <<>> => app.current_match < Len(app.search_matches)
    /\ app.search_matches = <<>> => app.current_match = 0

\* a query typed on main.md still matches after the link to other.md was
\* opened: the matches are those of other.md
C32_Witness ==
    /\ app.search_query # <<>>
    /\ app.doc.path = Some(Absolute("other.md"))
    /\ app.search_matches # <<>>
    /\ Len(app.backstack) = 1

\* back on main.md after a back-pop, with two matches and the second current
C32_AfterBackPop ==
    /\ StatusIs(app, "Returned to", 2)
    /\ Len(app.search_matches) >= 2
    /\ app.current_match = 1

(***************************************************************************)
(* The backstack                                                           *)
(***************************************************************************)
\* Enter opened an internal markdown link: another file is displayed
LinkOpenedStep ==
    /\ KeyStep("Enter")
    /\ StatusIs(app', "Opened", 2)
    /\ app'.doc.path # app.doc.path

\* Enter on an internal markdown link returned an error: the target could not
\* be read, or could not be watched once loaded
LinkOpenFailedStep ==
    /\ pc = "poll_key" /\ ~app.search_mode /\ exit' = "err of handle_key"
    /\ FileReadBy("Enter") # ""
    /\ \E env \in DirEnvs("Enter") :
          /\ handle_key(app, "Enter", env).err
          /\ app' = handle_key(app, "Enter", env).app

\* Backspace popped an entry and displayed its file
BackPopStep ==
    /\ KeyStep("Backspace")
    /\ app.backstack # <<>>
    /\ StatusIs(app', "Returned to", 2)

\* the store holds the displayed document as its only snapshot, under the
\* revision id that was next
StoreReset(before, after) ==
    /\ Len(after.snapshots) = 1
    /\ after.active_snapshot = 0
    /\ after.snapshots[1].rendered = after.doc.rendered
    /\ after.snapshots[1].revision = before.next_revision
    /\ after.next_revision = before.next_revision + 1

\* one entry (P, s) is pushed and the store is reset
LinkOpenPushes ==
    /\ app.doc.path # None
    /\ app'.backstack =
          Append(app.backstack, [path |-> app.doc.path[1], scroll |-> app.scroll])
    /\ StoreReset(app, app')

\* the entry (P, s) is pushed although the open failed
FailedOpenPushes ==
    /\ app.doc.path # None
    /\ app'.backstack =
          Append(app.backstack, [path |-> app.doc.path[1], scroll |-> app.scroll])

\* the target is at scroll 0 when the query kept from before matches none of
\* its lines; otherwise current_match is the one kept, lowered to the last
\* match of the target, and the scroll is on that match, bounded by max_scroll
TargetAtKeptMatch ==
    IF app'.search_matches = <<>> THEN app'.scroll = 0 /\ app'.current_match = 0
    ELSE /\ app'.current_match = Min(app.current_match, Len(app'.search_matches) - 1)
         /\ app'.scroll = Min(app'.search_matches[app'.current_match + 1],
                              max_scroll(app'))

\* the entry is popped, its file is displayed at the scroll it holds, bounded
\* by max_scroll of the file as read now, and the store is reset
BackPopRestores ==
    LET entry == app.backstack[Len(app.backstack)]
    IN /\ app'.backstack = SubSeq(app.backstack, 1, Len(app.backstack) - 1)
       /\ app'.doc.path = Some(entry.path)
       /\ app'.scroll = Min(entry.scroll, max_scroll(app'))
       /\ StoreReset(app, app')

\* reloads (accepted, refused or failed) and revision keys leave the backstack
BackstackApartFromStore ==
    (ReloadStep \/ RevisionBackStep \/ RevisionForwardStep) =>
       app'.backstack = app.backstack

\* C33 as stated: opening an internal markdown link from document P at scroll
\* s pushes exactly one entry (P, s), loads the target with scroll 0 and
\* resets the store; a following Backspace pops that entry, displays P again
\* with scroll = min(s, max_scroll of the reloaded P), resets the store and
\* leaves the backstack as it was; appends, refused appends and revision
\* navigation never change the backstack
C33_Original_TargetAtTop ==
    /\ [][LinkOpenedStep => LinkOpenPushes /\ app'.scroll = 0]_vars
    /\ [][BackPopStep => BackPopRestores]_vars
    /\ [][BackstackApartFromStore]_vars

\* C33: the same, with the target shown at scroll 0 unless the search query
\* kept from before matches a line of it: then current_match is the one kept
\* from before, lowered to the last match of the target, and the scroll is on
\* that match, bounded by max_scroll; the entry is pushed before the target is
\* read, so an open that fails has pushed it too
C33_BackstackRoundTrip ==
    /\ [][LinkOpenedStep => LinkOpenPushes /\ TargetAtKeptMatch]_vars
    /\ [][LinkOpenFailedStep => FailedOpenPushes]_vars
    /\ [][BackPopStep => BackPopRestores]_vars
    /\ [][BackstackApartFromStore]_vars

\* back on main.md after the round trip, at the scroll position it was left at
C33_Witness ==
    /\ pc = "draw"
    /\ StatusIs(app, "Returned to", 2)
    /\ app.doc.path = Some("main.md")
    /\ app.backstack = <<>>
    /\ app.scroll > 0
    /\ Len(app.snapshots) = 1

\* other.md opened with a query that matches its second and third lines,
\* shown at the first of the two
C33_TargetAtMatch ==
    /\ pc = "draw"
    /\ StatusIs(app, "Opened", 2)
    /\ app.doc.path = Some(Absolute("other.md"))
    /\ Len(app.search_matches) = 2
    /\ app.current_match = 0
    /\ app.scroll = app.search_matches[1] /\ app.scroll > 0

\* other.md opened after the second match of main.md was visited: it is shown
\* at its own second match
C33_TargetAtSecondMatch ==
    /\ pc = "draw"
    /\ StatusIs(app, "Opened", 2)
    /\ app.doc.path = Some(Absolute("other.md"))
    /\ Len(app.search_matches) = 2
    /\ app.current_match = 1
    /\ app.scroll = app.search_matches[2] /\ app.scroll > app.search_matches[1]

\* the session ended by the unreadable target of a link, the entry of main.md
\* pushed
C33_PushedBeforeFailedRead ==
    /\ exit = "err of handle_key"
    /\ app.doc.path = Some("main.md")
    /\ Len(app.backstack) = 1
    /\ app.backstack[1].path = "main.md"

(***************************************************************************)
(* The timeline dock                                                       *)
(***************************************************************************)
DrawReturned == call.fn = "draw" /\ call.result # None

Drawn == call.result[1].layout

TimelineWanted == call.app.cli.watch /\ call.app.timeline_open

\* C34: the timeline dock is allocated exactly when watch mode is on, the
\* timeline is open and the viewport has room for at least 3 dock rows plus 1
\* status row plus 1 content row (height >= 5); when allocated its height is
\* min(6, rows available beside the status row and one content row) and never
\* below 3, the status line has 1 row and the content region at least 1 row;
\* otherwise content fills everything above the 1-row status line.  Stated
\* for the frames where a status row and a content row fit (height >= 2)
C34_DockWhenFiveRows ==
    DrawReturned /\ call.height >= 2 =>
       /\ Drawn.timeline # None <=> (TimelineWanted /\ call.height >= 5)
       /\ Drawn.status = 1
       /\ IF Drawn.timeline # None
          THEN /\ Drawn.timeline[1] = Min(6, call.height - 2)
               /\ Drawn.timeline[1] >= 3
               /\ Drawn.body >= 1
               /\ Drawn.body + Drawn.timeline[1] + Drawn.status = call.height
          ELSE Drawn.body = call.height - 1

\* what draw computes: the dock needs six rows, three of them kept for the
\* content region and the status line; its height is min(6, height - 3).  On
\* a frame of one row the content region takes the row and the status line
\* has none
DockWhenSixRows ==
    DrawReturned =>
       /\ Drawn.timeline # None <=> (TimelineWanted /\ call.height >= 6)
       /\ Drawn.status = IF call.height >= 2 THEN 1 ELSE 0
       /\ IF Drawn.timeline # None
          THEN /\ Drawn.timeline[1] = Min(6, call.height - 3)
               /\ Drawn.timeline[1] >= 3
               /\ Drawn.body >= 2
               /\ Drawn.body + Drawn.timeline[1] + Drawn.status = call.height
          ELSE /\ Drawn.body = Max(Min(call.height, 1), call.height - 1)
               /\ Drawn.body + Drawn.status = call.height

\* a frame of one row: the content region has it, the status line has none
OneRowFrame ==
    /\ DrawReturned
    /\ call.height = 1
    /\ Drawn.body = 1 /\ Drawn.status = 0 /\ Drawn.timeline = None

\* five rows, watch mode, timeline open: no dock, four rows of content
C34_NoDockAtFiveRows ==
    /\ DrawReturned
    /\ TimelineWanted
    /\ call.height = 5
    /\ Drawn.timeline = None
    /\ Drawn.body = 4

(***************************************************************************)
(* Blockquote prefixes                                                     *)
(***************************************************************************)
QuotePrefix(depth) == Repeat(<<">", " ">>, depth)

\* the lines with content that the step flushed, by 1-based position
FlushedLines ==
    {i \in (Len(call.renderer.lines) + 1)..Len(call'.renderer.lines) :
        call'.renderer.lines[i].plain # <<>>}

\* C35: for every parser event sequence, every line with content that the
\* renderer produces while the blockquote depth d is above 0 begins with the
\* prefix "> " repeated d times, before any other content, also when the line
\* starts with a list bullet, a task marker, an image placeholder or a rule
C35_QuotedLinesPrefixed ==
    [][call.renderer.blockquote_depth > 0 =>
          \A i \in FlushedLines :
             StartsWith(call'.renderer.lines[i].plain,
                        QuotePrefix(call.renderer.blockquote_depth))]_vars

\* inside a blockquote, a list item was flushed: the line starts with the bullet
C35_BulletWithoutPrefix ==
    /\ call.fn = "render_markdown"
    /\ call.renderer.blockquote_depth = 1
    /\ call.renderer.lines # <<>>
    /\ call.renderer.lines[Len(call.renderer.lines)].plain = <<"-", " ", "t">>

\* lines of quoted text do get the prefix
C35_TextWithPrefix ==
    /\ call.fn = "render_markdown"
    /\ call.renderer.blockquote_depth = 2
    /\ call.renderer.lines # <<>>
    /\ call.renderer.lines[Len(call.renderer.lines)].plain = <<">", " ", ">", " ", "t">>

(***************************************************************************)
(* The displayed document and the store                                    *)
(***************************************************************************)
\* C36: in every reachable state the displayed document is identical to the
\* rendered document stored in the snapshot at the active index, after any
\* interleaving of appends with or without eviction, refused appends,
\* revision navigation, link opens and back-pops
C36_DisplayedIsActiveSnapshot ==
    /\ app.active_snapshot < Len(app.snapshots)
    /\ app.doc.rendered = app.snapshots[app.active_snapshot + 1].rendered

\* in history mode after an append that evicted: an older rendering than the
\* live one is displayed
C36_Witness ==
    /\ Len(app.snapshots) = app.history_capacity
    /\ Len(app.snapshots) >= 2
    /\ app.snapshots[1].revision > 1
    /\ app.active_snapshot < Len(app.snapshots) - 1
    /\ app.doc.rendered # app.snapshots[Len(app.snapshots)].rendered

(***************************************************************************)
(* What a reload displays                                                  *)
(***************************************************************************)
\* the reload step that read `read` with success in live mode and returned Ok
ReloadRead(read, watch_ok) ==
    /\ ReloadStep
    /\ read # None
    /\ LiveMode(app)
    /\ ~reload_current(app, read, watch_ok).err
    /\ Reloaded(reload_current(app, read, watch_ok), read)

ReadsOfDoc == Reads(IF app.doc.path = None THEN "" ELSE app.doc.path[1])

\* C37: after every successful reload in live mode, the displayed document
\* equals the rendering of the file content that reload read, in all of its
\* parts (segment styles, TOC levels and link targets as well as plain text)
C37_ReloadShowsWhatWasRead ==
    [][\A read \in ReadsOfDoc, watch_ok \in BOOLEAN :
          ReloadRead(read, watch_ok) => app'.doc.rendered = read[1]]_vars

\* what the code does guarantee: the plain text displayed is the plain text
\* read, and a refused append leaves the displayed document as it was
ReloadShowsPlainTextRead ==
    [][\A read \in ReadsOfDoc, watch_ok \in BOOLEAN :
          ReloadRead(read, watch_ok) =>
              /\ PlainLines(app'.doc.rendered) = PlainLines(read[1])
              /\ \/ app'.doc.rendered = read[1]
                 \/ /\ app'.doc.rendered = app.doc.rendered
                    /\ app'.snapshots = app.snapshots
                    /\ StatusIs(app', "Reloaded", 3)]_vars

\* the file was restyled and reloaded, and the old styling, TOC and links are
\* still displayed
C37_RestyleNotShown ==
    /\ pc = "poll_watch"
    /\ StatusIs(app, "Reloaded", 3)
    /\ app.status[3] = "no text changes"
    /\ LiveMode(app)
    /\ app.doc.rendered = DocShort
    /\ Len(app.snapshots) = 1

(***************************************************************************)
(* Modifications of the watched file and reloads                           *)
(***************************************************************************)
\* C38: in watch mode, for every interleaving of file modifications with the
\* loop's steps, every modification of the watched file is eventually
\* followed by a reload whose read happens after that modification
C38_EveryModificationReloaded ==
    \A version \in 1..MaxModifications :
        (file.modified >= version) ~> (file.read >= version)

\* a modification fell between the read of a reload and the replacement of
\* the watcher: the channel that held its event is gone, nothing is latched,
\* and the loop polls an empty channel
C38_NotificationLost ==
    /\ pc = "poll_watch"
    /\ file.read < file.modified
    /\ app.watcher # None
    /\ app.watcher[1].rx = <<>>
    /\ ~app.watch_requested
    /\ app.status # <<>>
    /\ app.status[1] = "Reloaded"

\* an unread modification has its event in the channel or latched, or fell
\* into a reload that has read and not yet returned
UnreadModificationPending ==
    file.read < file.modified =>
        \/ pc = "reload_read"
        \/ app.watch_requested
        \/ app.watcher # None /\ app.watcher[1].rx # <<>>

(***************************************************************************)
(* Anchors of the hunks of one diff                                        *)
(***************************************************************************)
\* the anchor of the k-th hunk compute_line_diff returned
ReturnedAnchor(k) == hunk_anchor_line(call.result[1].hunks[k], Len(call.new_lines))

ReturnedHunks == 1..Len(call.result[1].hunks)

\* C39: for every diff produced by compute_line_diff on a non-empty new
\* document, distinct hunks have distinct anchor lines: anchors strictly
\* increase in hunk order
C39_AnchorsStrictlyIncrease ==
    (LineDiffReturned /\ call.new_lines # <<>>) =>
        \A k \in ReturnedHunks \ {1} : ReturnedAnchor(k - 1) < ReturnedAnchor(k)

\* what the code does guarantee: anchors never decrease, and two hunks share
\* an anchor only at line 0, when lines were removed both before and after
\* the first line of the new document
AnchorsIncreaseAfterLineZero ==
    (LineDiffReturned /\ call.new_lines # <<>>) =>
        \A k \in ReturnedHunks \ {1} :
            \/ ReturnedAnchor(k - 1) < ReturnedAnchor(k)
            \/ /\ k = 2
               /\ ReturnedAnchor(1) = 0
               /\ ReturnedAnchor(2) = 0
               /\ call.result[1].hunks[1].start_line = 0
               /\ call.result[1].hunks[1].added = 0
               /\ call.result[1].hunks[2].start_line = 1
               /\ call.result[1].hunks[2].added = 0

\* old document x, a, y and new document a: the removal before line 0 and
\* the removal after it are both anchored at line 0
C39_TwoHunksOneAnchor ==
    /\ LineDiffReturned
    /\ Len(call.new_lines) = 1
    /\ Len(call.old_lines) = 3
    /\ Len(call.result[1].hunks) = 2
    /\ ReturnedAnchor(1) = 0
    /\ ReturnedAnchor(2) = 0

(***************************************************************************)
(* Repeated hunk jumps                                                     *)
(***************************************************************************)
\* n presses of the hunk jump key in a row
RECURSIVE JumpTimes(_, _, _)
JumpTimes(a, n, reverse) ==
    IF n = 0 THEN a ELSE JumpTimes(jump_hunk_relative(a, reverse), n - 1, reverse)

HunkCount(a) == IF current_snapshot(a) = None THEN 0 ELSE Len(ActiveHunks(a))

\* the hunk numbers the status has shown within n presses
HunksShown(a, n, reverse) == {JumpTimes(a, i, reverse).status[2] : i \in 1..n}

\* the press after the last hunk in the direction of the jump shows the first
WrapsAround(a, reverse) ==
    \A i \in 1..HunkCount(a) :
        JumpTimes(a, i, reverse).status[2] = (IF reverse THEN 1 ELSE HunkCount(a)) =>
            JumpTimes(a, i + 1, reverse).status[2] = (IF reverse THEN HunkCount(a) ELSE 1)

VisitsEveryHunk(a, reverse) ==
    /\ HunksShown(a, HunkCount(a), reverse) = 1..HunkCount(a)
    /\ WrapsAround(a, reverse)

\* C40: from any state whose active snapshot has N >= 2 hunks, pressing the
\* forward hunk jump repeatedly visits every hunk: within N presses the
\* status has shown 'Hunk k/N' for every k in 1..N and the jump wraps to hunk
\* 1 after hunk N, for every viewport height and document length;
\* symmetrically for backward jumps
C40_JumpsVisitEveryHunk ==
    HunkCount(app) >= 2 => \A reverse \in BOOLEAN : VisitsEveryHunk(app, reverse)

\* what the code does guarantee: the hunks are all visited when every anchor
\* is a scroll position the viewport allows and no two hunks share an anchor
JumpsVisitHunksWithinReach ==
    (/\ HunkCount(app) >= 2
     /\ Cardinality(AnchorSet(app)) = HunkCount(app)
     /\ \A line \in AnchorSet(app) : line <= max_scroll(app)) =>
        \A reverse \in BOOLEAN : VisitsEveryHunk(app, reverse)

\* two hunks, the second anchored below max_scroll: every forward press
\* stops at max_scroll and shows the same hunk again
C40_ForwardJumpStuck ==
    /\ pc = "draw"
    /\ HunkCount(app) = 2
    /\ StatusIs(app, "Hunk", 3)
    /\ app.scroll = max_scroll(app)
    /\ LargestOf(AnchorSet(app)) > max_scroll(app)
    /\ jump_hunk_relative(app, FALSE).status = app.status
    /\ jump_hunk_relative(app, FALSE).scroll = app.scroll
    /\ HunksShown(app, 2, FALSE) # {1, 2}
====
